---------------------------- MODULE Spec2Model ----------------------------
(***************************************************************************)
(* A model of mimesis: the seedable random source (mimesis/random.py), the *)
(* providers built on it (mimesis/providers/base.py) and the identifier    *)
(* generators with their checksum arithmetic.                              *)
(*                                                                         *)
(* Python values are modelled as sequences of integers: a string is the    *)
(* sequence of its character codes, an int n is <<n>>, a list of ints is   *)
(* the sequence of its elements.                                           *)
(***************************************************************************)
EXTENDS Integers, Sequences, FiniteSets, TLC

VARIABLES
    rnd,    \* random object id -> state of that Random instance
    prov,   \* provider id -> [random: object id, seed: the provider's seed attribute]
    res,    \* provider id -> outcome of the provider's last call
    hist,   \* provider id -> what happened since construction (history variable)
    steps,  \* number of calls issued so far (bounds the exploration)
    pure,   \* a call of a function that draws nothing: [fn, arg, out]
    cpr,    \* DenmarkSpecProvider.cpr() in progress on provider 1
    ctx     \* the locale context: locale, dataset and the override scopes open

vars == <<rnd, prov, res, hist, steps, pure, cpr, ctx>>

---------------------------------------------------------------------------
(* Bounds of the model. *)

RngBits == 11       \* the seeded generator has 2^RngBits states
FreeFull == 10      \* an unseeded draw below n <= FreeFull may give any value
FreeSpan == 2       \* an unseeded draw below n > FreeFull gives one of FreeSpan values
MaxSteps == 3       \* calls per behaviour in the two-session specifications
UniformRes == 4     \* a uniform draw takes one of UniformRes + 1 equally spaced values
MaxLuhnLen == 3     \* luhn_checksum is applied to every digit string up to this length

Modulus == 2 ^ RngBits
Seeds == {1, 2}
Provs == {1, 2}
Objs == {1, 2, 3, 4}

---------------------------------------------------------------------------
(* Python text and number formatting. *)

\* str(d) for a digit d, and int(c) for a digit character c
DigitChar(d) == 48 + d
DigitVal(c) == c - 48
\* str.isdigit() on one character
IsDigit(c) == c >= 48 /\ c <= 57

RECURSIVE ZeroPad(_, _)
\* f"{n:0{width}d}" for n >= 0: at least `width` digits, zero filled
ZeroPad(n, width) ==
    IF n < 10 /\ width <= 1 THEN <<DigitChar(n)>>
    ELSE ZeroPad(n \div 10, width - 1) \o <<DigitChar(n % 10)>>

\* str(n) for n >= 0
Str(n) == ZeroPad(n, 1)

RECURSIVE SumTo(_, _)
\* s[1] + ... + s[n]
SumTo(s, n) == IF n = 0 THEN 0 ELSE s[n] + SumTo(s, n - 1)

\* sum(s)
SumSeq(s) == SumTo(s, Len(s))

\* [x for x in s if keep(x)]
RECURSIVE OnlyDigits(_)
OnlyDigits(s) ==
    IF s = <<>> THEN <<>>
    ELSE (IF IsDigit(Head(s)) THEN <<Head(s)>> ELSE <<>>) \o OnlyDigits(Tail(s))

\* s[a:b] of Python, 0-based, clipped to the string
Slice(s, a, b) ==
    LET hi == IF b < Len(s) THEN b ELSE Len(s)
    IN  IF a >= hi THEN <<>> ELSE SubSeq(s, a + 1, hi)

---------------------------------------------------------------------------
(* mimesis/shortcuts.py *)

\* the digits after the loop of luhn_checksum: range(len(digits) - 2, -1, -2)
\* doubles the digits at 0-based indices len-2, len-4, ...
LuhnDoubled(digits) ==
    [j \in 1..Len(digits) |->
        IF (Len(digits) - j) % 2 = 1
        THEN (IF digits[j] * 2 > 9 THEN digits[j] * 2 - 9 ELSE digits[j] * 2)
        ELSE digits[j]]

\* luhn_checksum(num)
luhn_checksum(num) ==
    LET kept == OnlyDigits(num)
        digits == [j \in 1..Len(kept) |-> DigitVal(kept[j])]
        total == SumSeq(LuhnDoubled(digits))
    IN  Str((10 - (total % 10)) % 10)

---------------------------------------------------------------------------
(* The state of a random.Random instance.  A seeded instance is a          *)
(* deterministic generator over Modulus states; an instance seeded from    *)
(* the operating system's entropy is in an unknown state, so each of its   *)
(* draws may give any value (free).                                        *)

MissingSeed == -2   \* mimesis.types.MissingSeed: no seed was passed
NoneSeed == -1      \* Python's None passed as the seed

IsExplicit(seed) == seed \in Seeds

\* random.Random.seed(a): the state is a function of a; seed() and seed(None)
\* take the state from the operating system
SeedRng(seed) ==
    IF IsExplicit(seed)
    THEN [free |-> FALSE, x |-> (seed * 389 + 7) % Modulus]
    ELSE [free |-> TRUE, x |-> 0]

\* one step of the seeded generator
Advance(st) == IF st.free THEN st ELSE [st EXCEPT !.x = (st.x * 1229 + 1) % Modulus]

FreeCap(n) == IF n <= FreeFull THEN n ELSE FreeSpan

\* random.Random._randbelow(n), n >= 1: the possible <<value, next state>>
randbelow(st, n) ==
    IF st.free
    THEN {<<v, st>> : v \in 0..(FreeCap(n) - 1)}
    ELSE \* (st.x * n) \div Modulus, computed without leaving 32 bits
         {<<st.x * (n \div Modulus) + (st.x * (n % Modulus)) \div Modulus, Advance(st)>>}

\* the outcome of a call: the value returned or the exception raised, and
\* the state the random object is left in
Ret(v, st) == [err |-> "", val |-> v, st |-> st]
Exc(e, st) == [err |-> e, val |-> <<>>, st |-> st]

\* random.Random.randint(a, b)
randint(st, a, b) ==
    IF b < a THEN {Exc("ValueError", st)}
    ELSE {Ret(<<a + d[1]>>, d[2]) : d \in randbelow(st, b - a + 1)}

\* random.Random.choice(seq)
choice(st, seq) ==
    IF seq = <<>> THEN {Exc("IndexError", st)}
    ELSE {Ret(<<seq[d[1] + 1]>>, d[2]) : d \in randbelow(st, Len(seq))}

RECURSIVE RandintList(_, _, _, _)
\* [self.randint(a, b) for _ in range(n)]
RandintList(st, n, a, b) ==
    IF n <= 0 THEN {Ret(<<>>, st)}
    ELSE UNION {{Ret(h.val \o t.val, t.st) : t \in RandintList(h.st, n - 1, a, b)}
                : h \in randint(st, a, b)}

\* Random.randints(n, a, b)
randints(st, n, a, b) ==
    IF n <= 0 THEN {Exc("ValueError", st)} ELSE RandintList(st, n, a, b)

RECURSIVE ChoiceList(_, _, _)
\* ''.join(self.choice(str_seq) for _ in range(length))
ChoiceList(st, str_seq, length) ==
    IF length <= 0 THEN {Ret(<<>>, st)}
    ELSE UNION {{Ret(h.val \o t.val, t.st) : t \in ChoiceList(h.st, str_seq, length - 1)}
                : h \in choice(st, str_seq)}

AsciiUppercase == [i \in 1..26 |-> 64 + i]
Digits == [i \in 1..10 |-> 47 + i]

\* one character of the mask, both placeholders replaced by a digit
MaskChar_digits(st, c, char, digit) ==
    IF c = char \/ c = digit THEN choice(st, Digits) ELSE {Ret(<<c>>, st)}

\* one character of the mask: self.choice(char_sequence) if c == char else
\* self.choice(digit_sequence) if c == digit else c
MaskChar(st, c, char, digit) ==
    IF c = char THEN choice(st, AsciiUppercase)
    ELSE IF c = digit THEN choice(st, Digits)
    ELSE {Ret(<<c>>, st)}

RECURSIVE generate_string_by_mask(_, _, _, _)
\* Random.generate_string_by_mask(mask, char, digit)
generate_string_by_mask(st, mask, char, digit) ==
    IF mask = <<>> THEN {Ret(<<>>, st)}
    ELSE UNION {{Ret(h.val \o t.val, t.st)
                 : t \in generate_string_by_mask(h.st, Tail(mask), char, digit)}
                : h \in MaskChar(st, Head(mask), char, digit)}

\* Random.randbytes(n)
randbytes(st, n) == RandintList(st, n, 0, 255)

\* Random.choice_enum_item(enum): enum is the list of the members
choice_enum_item(st, enum) == choice(st, enum)


\* Random.uniform(a, b) at the default precision, as a fixed-point number
\* with denominator UniformRes: a + (b - a) * k / UniformRes.  The grid
\* includes b, which rounding can return.
uniform(st, a, b) ==
    {Ret(<<a * UniformRes + (b - a) * d[1]>>, d[2]) : d \in randbelow(st, UniformRes + 1)}

RECURSIVE WalkWeights(_, _)
\* the loop of weighted_choice over choices.items(), r in units of
\* 1/UniformRes; <<>> when the loop ends without returning (None)
WalkWeights(r, items) ==
    IF items = <<>> THEN <<>>
    ELSE LET r2 == r - Head(items)[2] * UniformRes
         IN  IF r2 <= 0 THEN <<Head(items)[1]>> ELSE WalkWeights(r2, Tail(items))

\* weighted_choice without the test for an empty mapping
weighted_choice_unguarded(st, choices) ==
    LET total == SumSeq([i \in 1..Len(choices) |-> choices[i][2]])
    IN  {Ret(WalkWeights(u.val[1], choices), u.st) : u \in uniform(st, 0, total)}

\* Random.weighted_choice(choices): choices is the list of <<key, weight>>
\* in insertion order
weighted_choice(st, choices) ==
    IF choices = <<>> THEN {Exc("ValueError", st)}
    ELSE LET total == SumSeq([i \in 1..Len(choices) |-> choices[i][2]])
         IN  {Ret(WalkWeights(u.val[1], choices), u.st) : u \in uniform(st, 0, total)}

---------------------------------------------------------------------------
(* Providers. *)

StOf(p) == rnd[prov[p].random]

\* reseed with self.random.seed() called without the seed
reseed_unseeded(pr, st, seed) ==
    [pr |-> IF seed # MissingSeed THEN [pr EXCEPT !.seed = seed] ELSE pr,
     st |-> SeedRng(MissingSeed)]

\* reseed that mixes the seed into the state the generator is in
reseed_carry(pr, st, seed) ==
    IF seed # MissingSeed
    THEN [pr |-> [pr EXCEPT !.seed = seed],
          st |-> IF st.free \/ ~IsExplicit(seed) THEN SeedRng(seed)
                 ELSE [free |-> FALSE, x |-> (SeedRng(seed).x + st.x) % Modulus]]
    ELSE [pr |-> pr, st |-> SeedRng(MissingSeed)]

\* BaseProvider.reseed(seed): the provider's attributes and the state of its
\* random object afterwards
reseed(pr, st, seed) ==
    IF seed # MissingSeed
    THEN [pr |-> [pr EXCEPT !.seed = seed], st |-> SeedRng(seed)]
    ELSE [pr |-> pr, st |-> SeedRng(MissingSeed)]

\* BaseProvider.__init__(seed=seed): a provider that creates its own Random
\* as object obj
NewProvider(obj, seed) ==
    reseed([random |-> obj, seed |-> seed], SeedRng(MissingSeed), seed)

\* BaseProvider._has_seed()
HasSeed(p) == prov[p].seed # MissingSeed

NoResult == [op |-> "", err |-> "", val |-> <<>>]
\* base: the seed of the last (re)seeding; calls: the calls issued since then,
\* kept while base is an explicit seed; reseeds: the number of reseed calls;
\* drawn: some call was issued; junk: some call was issued before the last
\* reseed; obj: the random object the provider was constructed with
NewHist(seed, obj) ==
    [base |-> seed, calls |-> <<>>, reseeds |-> 0, drawn |-> FALSE, junk |-> FALSE,
     obj |-> obj]

Call(op, args) == [op |-> op, args |-> args]

\* The sets of sessions that issue a call: provider 2 alone, or both
\* providers issuing the same call.  Provider 1 is the reference session: it
\* does nothing that provider 2 does not do as well.
Targets == {{2}, {1, 2}}

\* Each provider of T issues the call c, whose possible outcomes on
\* provider p are outs[p].
Apply(T, c, outs) ==
    /\ steps < MaxSteps
    /\ \E o1 \in (IF 1 \in T THEN outs[1] ELSE {Ret(<<>>, StOf(1))}),
          o2 \in (IF 2 \in T THEN outs[2] ELSE {Ret(<<>>, StOf(2))}) :
          LET o == <<o1, o2>>
          IN  /\ rnd' = [k \in Objs |->
                            IF \E p \in T : prov[p].random = k
                            THEN o[CHOOSE p \in T : prov[p].random = k].st
                            ELSE rnd[k]]
              /\ res' = [p \in Provs |->
                            IF p \in T THEN [op |-> c.op, err |-> o[p].err, val |-> o[p].val]
                            ELSE res[p]]
    /\ hist' = [p \in Provs |->
                   IF p \in T
                   THEN [hist[p] EXCEPT !.calls = IF IsExplicit(hist[p].base)
                                                  THEN Append(@, c) ELSE @,
                                        !.drawn = TRUE]
                   ELSE hist[p]]
    /\ steps' = steps + 1
    /\ UNCHANGED <<prov, pure, cpr, ctx>>

\* provider.reseed(seed) on each provider of T
Reseed(T, seed) ==
    /\ steps < MaxSteps
    /\ rnd' = [k \in Objs |->
                  IF \E p \in T : prov[p].random = k
                  THEN reseed(prov[CHOOSE p \in T : prov[p].random = k], rnd[k], seed).st
                  ELSE rnd[k]]
    /\ prov' = [p \in Provs |-> IF p \in T THEN reseed(prov[p], StOf(p), seed).pr ELSE prov[p]]
    /\ hist' = [p \in Provs |->
                   IF p \in T
                   THEN [base |-> seed, calls |-> <<>>, reseeds |-> hist[p].reseeds + 1,
                         drawn |-> hist[p].drawn, junk |-> hist[p].drawn,
                         obj |-> hist[p].obj]
                   ELSE hist[p]]
    /\ steps' = steps + 1
    /\ UNCHANGED <<res, pure, cpr, ctx>>

ReseedAct == \E T \in {{2}}, seed \in Seeds \cup {NoneSeed, MissingSeed} : Reseed(T, seed)

RandintAct ==
    \E T \in Targets, ab \in {<<1, 100>>} :
        Apply(T, Call("randint", ab), [p \in Provs |-> randint(StOf(p), ab[1], ab[2])])

ChoiceAct ==
    \E T \in Targets, seq \in {<<10, 20, 30>>} :
        Apply(T, Call("choice", seq), [p \in Provs |-> choice(StOf(p), seq)])

RandintsAct ==
    \E T \in Targets, nab \in {<<2, 1, 100>>} :
        Apply(T, Call("randints", nab), [p \in Provs |-> randints(StOf(p), nab[1], nab[2], nab[3])])

\* the mask "@#-" with the default placeholders '@' and '#'
MaskAct ==
    \E T \in Targets, mask \in {<<64, 35, 45>>} :
        Apply(T, Call("generate_string_by_mask", mask),
              [p \in Provs |-> generate_string_by_mask(StOf(p), mask, 64, 35)])

WeightedChoiceAct ==
    \E T \in Targets, choices \in {<<<<1, 1>>, <<2, 3>>>>} :
        Apply(T, Call("weighted_choice", <<1, 1, 2, 3>>),
              [p \in Provs |-> weighted_choice(StOf(p), choices)])

RandbytesAct ==
    \E T \in Targets, n \in {2} :
        Apply(T, Call("randbytes", <<n>>), [p \in Provs |-> randbytes(StOf(p), n)])

ChoiceEnumItemAct ==
    \E T \in Targets, enum \in {<<1, 2, 3>>} :
        Apply(T, Call("choice_enum_item", enum), [p \in Provs |-> choice_enum_item(StOf(p), enum)])

NoPure == [fn |-> "", arg |-> <<>>, out |-> <<>>]
NoCpr == [pc |-> "idle", century |-> <<>>, serial |-> <<>>, first |-> <<>>, retried |-> FALSE]
NoCtx == [kind |-> ""]

\* Provider 1 constructed with seed s1 and provider 2 with seed s2, each with
\* its own Random; nothing called yet.
ConstructedCore(s1, s2) ==
    /\ prov = [p \in Provs |-> NewProvider(p, IF p = 1 THEN s1 ELSE s2).pr]
    /\ rnd = [k \in Objs |->
                 IF k \in Provs THEN NewProvider(k, IF k = 1 THEN s1 ELSE s2).st
                 ELSE SeedRng(MissingSeed)]
    /\ hist = [p \in Provs |-> NewHist(IF p = 1 THEN s1 ELSE s2, p)]
    /\ res = [p \in Provs |-> NoResult]
    /\ steps = 0

\* Two providers: provider 1 with an explicit seed, provider 2 with any seed
\* or none.
Init ==
    /\ \E s1 \in Seeds, s2 \in Seeds \cup {MissingSeed} : ConstructedCore(s1, s2)
    /\ pure = NoPure
    /\ cpr = NoCpr
    /\ ctx = NoCtx

Next ==
    \/ ReseedAct
    \/ RandintAct
    \/ ChoiceAct
    \/ RandintsAct
    \/ MaskAct
    \/ WeightedChoiceAct
    \/ RandbytesAct
    \/ ChoiceEnumItemAct

Spec == Init /\ [][Next]_vars

---------------------------------------------------------------------------
(* Arguments and enums. *)

NoneArg == 0    \* None passed as an argument
\* the members of an enum are numbered from 1; the name of member m, passed
\* as a string, is MemberName(m)
MemberName(m) == 100 + m
NotAMember == 99   \* a value that is neither a member nor a member's name

CardType == <<1, 2, 3>>     \* VISA, MASTER_CARD, AMERICAN_EXPRESS
EANFormat == <<1, 2>>       \* EAN8, EAN13
Male == 1
Female == 2
Gender == <<Female, Male>>

\* BaseProvider.validate_enum(item, enum) on a provider whose random is in
\* state st
validate_enum(st, item, enum) ==
    IF item = NoneArg THEN choice_enum_item(st, enum)
    ELSE IF \E i \in 1..Len(enum) : enum[i] = item THEN {Ret(<<item>>, st)}
    ELSE IF \E i \in 1..Len(enum) : MemberName(enum[i]) = item
         THEN {Ret(<<item - 100>>, st)}
    ELSE {Exc("NonEnumerableError", st)}

---------------------------------------------------------------------------
(* mimesis/providers/payment.py and mimesis/providers/code.py *)

\* CREDIT_CARD_NETWORKS[card_type.value]: the prefixes of a network
\* ("4"; "51", "55"; "34", "37")
CreditCardNetworks(card) ==
    IF card = 1 THEN <<<<52>>>>
    ELSE IF card = 2 THEN <<<<53, 49>>, <<53, 53>>>>
    ELSE <<<<51, 52>>, <<51, 55>>>>

\* ' '.join([number[i:i+4] for i in range(0, 16, 4)])
JoinBlocks(number) ==
    Slice(number, 0, 4) \o <<32>> \o Slice(number, 4, 8) \o <<32>>
        \o Slice(number, 8, 12) \o <<32>> \o Slice(number, 12, 16)

\* ' '.join([number[i:i+4] for i in range(0, 12, 4)])
FormatCard_short(number) ==
    LET full == number \o luhn_checksum(number)
    IN  Slice(full, 0, 4) \o <<32>> \o Slice(full, 4, 8) \o <<32>> \o Slice(full, 8, 12)

\* number += luhn_checksum(number); return the blocks joined
FormatCard(number) == JoinBlocks(number \o luhn_checksum(number))

\* Payment.credit_card_number(card_type)
credit_card_number(st, card_type) ==
    UNION {IF v.err # "" THEN {v}
           ELSE UNION {{Ret(FormatCard(pf.val[1] \o ds.val), ds.st)
                        : ds \in ChoiceList(pf.st, Digits, 14 - Len(pf.val[1]))}
                       : pf \in choice(v.st, CreditCardNetworks(v.val[1]))}
           : v \in validate_enum(st, card_type, CardType)}

\* Code.ean(fmt): self.random.custom_code is looked up after the format is
\* validated; mimesis.random.Random defines no custom_code
ean(st, fmt) ==
    {IF v.err # "" THEN v ELSE Exc("AttributeError", v.st)
     : v \in validate_enum(st, fmt, EANFormat)}

\* IMEI_TACS: type allocation codes ("35328504", "35935003")
ImeiTacs == <<<<51, 53, 51, 50, 56, 53, 48, 52>>, <<51, 53, 57, 51, 53, 48, 48, 51>>>>

\* Code.imei(): the TAC is drawn, then self.random.custom_code is looked up
imei(st) == {Exc("AttributeError", t.st) : t \in choice(st, ImeiTacs)}

---------------------------------------------------------------------------
(* mimesis/providers/date.py *)

CurrentYear == 2024     \* Datetime._CURRENT_YEAR = datetime.now().year

\* Datetime.date(start, end): <<year, month, day>>
Datetime_date(st, start, end) ==
    UNION {UNION {{Ret(<<y.val[1], m.val[1], d.val[1]>>, d.st)
                   : d \in randint(m.st, 1, 28)}
                  : m \in randint(y.st, 1, 12)}
           : y \in randint(st, start, end)}

\* Datetime.time(): <<hour, minute, second, microsecond>>
Datetime_time(st) ==
    UNION {UNION {UNION {{Ret(<<h.val[1], mi.val[1], sec.val[1], us.val[1]>>, us.st)
                          : us \in randint(sec.st, 0, 999999)}
                         : sec \in randint(mi.st, 0, 59)}
                  : mi \in randint(h.st, 0, 59)}
           : h \in randint(st, 0, 23)}

\* Datetime.datetime(start, end) without a timezone:
\* <<year, month, day, hour, minute, second, microsecond>>
Datetime_datetime(st, start, end) ==
    UNION {{Ret(d.val \o t.val, t.st) : t \in Datetime_time(d.st)}
           : d \in Datetime_date(st, start, end)}

---------------------------------------------------------------------------
(* mimesis/builtins/pl.py, en.py, nl.py *)

\* sum(w * d for w, d in zip(weights, digits))
WeightedSum(weights, digits) ==
    LET n == IF Len(weights) < Len(digits) THEN Len(weights) ELSE Len(digits)
    IN  SumSeq([i \in 1..n |-> weights[i] * digits[i]])

\* ''.join(map(str, digits)) for a list of ints
JoinInts(ints) ==
    LET F[i \in 0..Len(ints)] == IF i = 0 THEN <<>> ELSE F[i - 1] \o Str(ints[i])
    IN  F[Len(ints)]

\* PolandSpecProvider.nip()
nip(st) ==
    {LET checksum == WeightedSum(<<6, 5, 7, 2, 3, 4, 5, 6, 7>>, r.val) % 11
     IN  Ret(JoinInts(Append(r.val, IF checksum = 10 THEN 0 ELSE checksum)), r.st)
     : r \in RandintList(st, 9, 0, 9)}

\* PolandSpecProvider.regon()
regon(st) ==
    {LET checksum == WeightedSum(<<8, 9, 2, 3, 4, 5, 6, 7>>, r.val) % 11
     IN  Ret(JoinInts(Append(r.val, IF checksum = 10 THEN 0 ELSE checksum)), r.st)
     : r \in RandintList(st, 8, 0, 9)}

\* a month field without the century
PeselMonth_plain(year, month) == month

\* the month field of a PESEL: the century of the year is added to the month
PeselMonth(year, month) ==
    IF 1800 <= year /\ year <= 1899 THEN month + 80
    ELSE IF 2000 <= year /\ year <= 2099 THEN month + 20
    ELSE IF 2100 <= year /\ year <= 2199 THEN month + 40
    ELSE IF 2200 <= year /\ year <= 2299 THEN month + 60
    ELSE month

\* the PESEL of the first ten characters: the check digit appended
PeselWithCheck(pesel) ==
    LET checksum == WeightedSum(<<1, 3, 7, 9, 1, 3, 7, 9, 1, 3>>,
                                [i \in 1..Len(pesel) |-> DigitVal(pesel[i])])
    IN  pesel \o Str((10 - (checksum % 10)) % 10)

\* gender digits that ignore the gender
PeselGenderDigits_odd(gender) == <<1, 3, 5, 7, 9>>

\* the digits the gender digit is chosen from
PeselGenderDigits(gender) ==
    IF gender = Female THEN <<0, 2, 4, 6, 8>> ELSE <<1, 3, 5, 7, 9>>

\* birth_date = Datetime().datetime(): the provider made on the spot has a
\* Random of its own, seeded from the operating system
PeselDefaultDate ==
    {<<d.val[1], d.val[2], d.val[3]>>
     : d \in Datetime_datetime(SeedRng(MissingSeed), CurrentYear, CurrentYear)}

\* PolandSpecProvider.pesel(birth_date, gender): birth_date is
\* <<year, month, day>> or <<>> for None
pesel(st, birth_date, gender) ==
    UNION {UNION {UNION {
        {Ret(PeselWithCheck(ZeroPad(date[1] % 100, 2)
                            \o ZeroPad(PeselMonth(date[1], date[2]), 2)
                            \o ZeroPad(date[3], 2)
                            \o ZeroPad(serial.val[1], 3)
                            \o Str(gd.val[1])),
             gd.st)
         : gd \in choice(serial.st, PeselGenderDigits(g.val[1]))}
        : serial \in randint(g.st, 0, 999)}
        : g \in IF gender = NoneArg THEN choice(st, <<Male, Female>>)
                ELSE {Ret(<<gender>>, st)}}
        : date \in IF birth_date = <<>> THEN PeselDefaultDate ELSE {birth_date}}

\* an ssn() that formats the numbers as drawn
ssn_as_drawn(st) ==
    UNION {UNION {{Ret(ZeroPad(a.val[1], 3) \o <<45>> \o ZeroPad(g.val[1], 2) \o <<45>>
                       \o ZeroPad(sr.val[1], 4), sr.st)
                   : sr \in randint(g.st, 1, 9999)}
                  : g \in randint(a.st, 1, 99)}
           : a \in randint(st, 1, 899)}

\* USASpecProvider.ssn()
ssn(st) ==
    UNION {UNION {{LET area == IF a.val[1] = 666 THEN 667 ELSE a.val[1]
                       group == IF g.val[1] = 0 THEN 1 ELSE g.val[1]
                   IN  Ret(ZeroPad(area, 3) \o <<45>> \o ZeroPad(group, 2) \o <<45>>
                           \o ZeroPad(sr.val[1], 4), sr.st)
                   : sr \in randint(g.st, 1, 9999)}
                  : g \in randint(a.st, 1, 99)}
           : a \in randint(st, 1, 899)}

\* NetherlandsSpecProvider.bsn()
bsn(st) ==
    {LET total == SumSeq([i \in 1..8 |-> (9 - (i - 1)) * r.val[i]])
     IN  Ret(JoinInts(Append(r.val, (total % 11) % 10)), r.st)
     : r \in RandintList(st, 8, 0, 9)}

---------------------------------------------------------------------------
(* Determinism of the random source. *)

\* p and q were last seeded with the same explicit seed and have issued the
\* same non-empty sequence of calls since
SameSession(p, q) ==
    /\ IsExplicit(hist[p].base)
    /\ hist[p].base = hist[q].base
    /\ hist[p].calls = hist[q].calls
    /\ hist[p].calls # <<>>

\* C1: two providers seeded with the same explicit seed that have issued the
\* same sequence of calls got the same result from the last call of the
\* sequence; as this holds in every reachable state, it holds at every step
\* of the sequence.
C1_Determinism ==
    \A p \in Provs, q \in Provs : SameSession(p, q) => res[p] = res[q]

\* both providers have issued the same two calls under the same seed, and
\* the last call returned a value
C1_Witness ==
    /\ SameSession(1, 2)
    /\ Len(hist[1].calls) >= 2
    /\ res[1].err = "" /\ res[1].val # <<>>

\* C2: a provider reseeded with S, whatever it drew or was seeded with
\* before and however often it was reseeded, gets the results that a provider
\* freshly constructed with S gets for the same calls, is left in the same
\* generator state, and still holds the random object it was constructed with.
C2_ReseedDiscardsState ==
    /\ \A p \in Provs, q \in Provs :
          (hist[p].reseeds = 0 /\ hist[q].reseeds > 0 /\ SameSession(p, q))
              => (res[p] = res[q] /\ StOf(p) = StOf(q))
    /\ \A p \in Provs : prov[p].random = hist[p].obj

\* provider 2 drew, was then reseeded, and has since issued the calls that
\* the freshly constructed provider 1 issued
C2_Witness ==
    /\ hist[1].reseeds = 0
    /\ hist[2].reseeds > 0
    /\ hist[2].junk
    /\ SameSession(1, 2)
    /\ res[2].val # <<>>

---------------------------------------------------------------------------
(* luhn_checksum as a function of its argument. *)

\* "4012888888188" and "7992739871"
VisaPayload == <<52, 48, 49, 50, 56, 56, 56, 56, 56, 56, 49, 56, 56>>
SamplePayload == <<55, 57, 57, 50, 55, 51, 57, 56, 55, 49>>

LuhnInputs ==
    UNION {[1..n -> 48..57] : n \in 0..MaxLuhnLen} \cup {VisaPayload, SamplePayload}

InitLuhn ==
    /\ ConstructedCore(1, 1)
    /\ \E num \in LuhnInputs : pure = [fn |-> "luhn_checksum", arg |-> num, out |-> <<>>]
    /\ cpr = NoCpr
    /\ ctx = NoCtx

LuhnChecksumAct ==
    /\ pure.fn = "luhn_checksum"
    /\ pure.out = <<>>
    /\ pure' = [pure EXCEPT !.out = luhn_checksum(pure.arg)]
    /\ UNCHANGED <<rnd, prov, res, hist, steps, cpr, ctx>>

NextLuhn == LuhnChecksumAct

SpecLuhn == InitLuhn /\ [][NextLuhn]_vars

\* The Luhn check digit of the payload p (digit values): every digit at odd
\* distance from the check position, which follows p, is doubled (the
\* rightmost digit of p, then every second digit going left), 9 is
\* subtracted from a doubled value above 9, and the digit is
\* (10 - (s mod 10)) mod 10 for the sum s.
LuhnCheckDigit(p) ==
    LET n == Len(p)
        term(j) == IF (n + 1 - j) % 2 = 1
                   THEN (IF 2 * p[j] > 9 THEN 2 * p[j] - 9 ELSE 2 * p[j])
                   ELSE p[j]
        s == SumSeq([j \in 1..n |-> term(j)])
    IN  (10 - (s % 10)) % 10

DigitValues(str) == [j \in 1..Len(str) |-> DigitVal(str[j])]

\* C5: luhn_checksum(p) is the Luhn check digit of p, for every digit string p.
C5_LuhnCheckDigit ==
    (pure.fn = "luhn_checksum" /\ pure.out # <<>>)
        => pure.out = Str(LuhnCheckDigit(DigitValues(pure.arg)))

\* C6: luhn_checksum("4012888888188") is "1".
C6_VisaExample ==
    (pure.fn = "luhn_checksum" /\ pure.arg = VisaPayload /\ pure.out # <<>>)
        => pure.out = <<DigitChar(1)>>

---------------------------------------------------------------------------
(* Two sessions calling the identifier generators. *)

\* a birth date argument: None, or 17 May 1990
BirthDates == {<<>>, <<1990, 5, 17>>}

PeselAct ==
    \E T \in Targets, birth_date \in BirthDates, gender \in {NoneArg} :
        Apply(T, Call("pesel", birth_date \o <<gender>>),
              [p \in Provs |-> pesel(StOf(p), birth_date, gender)])

NipAct == \E T \in Targets : Apply(T, Call("nip", <<>>), [p \in Provs |-> nip(StOf(p))])

RegonAct == \E T \in Targets : Apply(T, Call("regon", <<>>), [p \in Provs |-> regon(StOf(p))])

SsnAct == \E T \in Targets : Apply(T, Call("ssn", <<>>), [p \in Provs |-> ssn(StOf(p))])

BsnAct == \E T \in Targets : Apply(T, Call("bsn", <<>>), [p \in Provs |-> bsn(StOf(p))])

\* provider.reseed(seed) with an explicit seed
ReseedExplicitAct == \E T \in Targets, seed \in Seeds : Reseed(T, seed)

\* Two providers constructed with explicit seeds.
InitIds ==
    /\ \E s1 \in Seeds, s2 \in Seeds : ConstructedCore(s1, s2)
    /\ pure = NoPure
    /\ cpr = NoCpr
    /\ ctx = NoCtx

NextIds ==
    \/ ReseedExplicitAct
    \/ PeselAct
    \/ NipAct
    \/ RegonAct
    \/ SsnAct
    \/ BsnAct

SpecIds == InitIds /\ [][NextIds]_vars

IdentifierOps == {"pesel", "nip", "regon", "ssn", "bsn"}

\* C3: an identifier generator draws from its provider's random source
\* alone, so the same identifier call on two providers in the same session
\* state (same explicit seed, same calls so far) returns the same value.
C3_IdentifiersDeterministic ==
    \A p \in Provs, q \in Provs :
        (SameSession(p, q) /\ res[p].op \in IdentifierOps) => res[p] = res[q]

\* the generators that take every draw from self.random do return the same
\* value: pesel with a birth date given, nip, regon, ssn, bsn
C3_OwnSourceDeterministic ==
    \A p \in Provs, q \in Provs :
        (/\ SameSession(p, q)
         /\ res[p].op \in IdentifierOps
         /\ \A i \in 1..Len(hist[p].calls) :
               hist[p].calls[i].op = "pesel" => Len(hist[p].calls[i].args) > 1)
            => res[p] = res[q]

---------------------------------------------------------------------------
(* One seeded session calling the generators, over every state of the      *)
(* seeded generator.                                                       *)

\* provider 1 issues the call named op, whose possible outcomes are outs
Emit(op, outs) ==
    /\ \E o \in outs :
          /\ rnd' = [rnd EXCEPT ![prov[1].random] = o.st]
          /\ res' = [res EXCEPT ![1] = [op |-> op, err |-> o.err, val |-> o.val]]
    /\ UNCHANGED <<prov, hist, steps, pure, cpr, ctx>>

CreditCardNumberGen ==
    \E card_type \in {NoneArg, 1, 2, 3, MemberName(1), NotAMember} :
        Emit("credit_card_number", credit_card_number(StOf(1), card_type))

EanGen == \E fmt \in {NoneArg, 1, 2} : Emit("ean", ean(StOf(1), fmt))

ImeiGen == Emit("imei", imei(StOf(1)))

InitGen ==
    /\ \E s1 \in Seeds : ConstructedCore(s1, s1)
    /\ pure = NoPure
    /\ cpr = NoCpr
    /\ ctx = NoCtx

NextGen ==
    \/ CreditCardNumberGen
    \/ EanGen
    \/ ImeiGen

SpecGen == InitGen /\ [][NextGen]_vars

LuhnOps == {"credit_card_number", "imei", "ean"}

\* everything but the last character, and the last character
Front(str) == SubSeq(str, 1, Len(str) - 1)
Last(str) == str[Len(str)]

C7_CardNumberFormat ==
    (res[1].op = "credit_card_number" /\ res[1].err = "")
        => LET v == res[1].val
               d == OnlyDigits(v)
           IN  /\ Len(v) = 19
               /\ Len(d) = 16
               /\ \A i \in 1..19 : (i \in {5, 10, 15}) <=> (v[i] = 32)
               /\ DigitVal(d[16]) = LuhnCheckDigit(DigitValues(SubSeq(d, 1, 15)))

---------------------------------------------------------------------------
(* mimesis/builtins/da.py: DenmarkSpecProvider.cpr() and its retry loop,   *)
(* one draw of the loop per step. Provider 1 is the Denmark provider; its    *)
(* Datetime provider shares its random object.                             *)

ChecksumFactors == <<4, 3, 2, 7, 6, 5, 4, 3, 2>>

\* _calculate_checksum without the special case of 11
calculate_checksum_raw(cpr_nr_no_checksum) ==
    11 - (WeightedSum(ChecksumFactors, DigitValues(cpr_nr_no_checksum)) % 11)

\* DenmarkSpecProvider._calculate_checksum(cpr_nr_no_checksum)
calculate_checksum(cpr_nr_no_checksum) ==
    LET sum_without_checksum ==
            WeightedSum(ChecksumFactors, DigitValues(cpr_nr_no_checksum))
        checksum == 11 - (sum_without_checksum % 11)
    IN  IF checksum = 11 THEN 0 ELSE checksum

\* str(year)[-2:]
LastTwo(str) == Slice(str, Len(str) - 2, Len(str))

\* day + month + year of self._datetime.date(start, end)
CprCentury(st, start, end) ==
    {Ret(ZeroPad(d.val[3], 2) \o ZeroPad(d.val[2], 2) \o LastTwo(Str(d.val[1])), d.st)
     : d \in Datetime_date(st, start, end)}

\* a loop that draws the birth date again when it starts over
LoopTop_redate(st, cpr_century) == CprCentury(st, 1900, 2099)

\* `while True:` starting over: cpr_century is the argument of
\* _generate_serial_checksum, which the loop never assigns
LoopTop(st, cpr_century) == {Ret(cpr_century, st)}

\* a digit that is not drawn
SerialDigit_zero(st) == {Ret(<<0>>, st)}

\* str(self.random.randint(0, 9)): one digit of the serial number
SerialDigit(st) == randint(st, 0, 9)

\* cpr() up to the call of _generate_serial_checksum. The caller draws from
\* the random object or reseeds between two calls of cpr(), which brings the
\* generator to every state a second call could start from.
CprBegin ==
    /\ cpr.pc = "idle"
    /\ res[1].op # "cpr"
    /\ \E c \in CprCentury(StOf(1), 1900, 2099) :
          /\ rnd' = [rnd EXCEPT ![prov[1].random] = c.st]
          /\ cpr' = [pc |-> "serial", century |-> c.val, serial |-> <<>>,
                     first |-> c.val, retried |-> FALSE]
    /\ res' = [res EXCEPT ![1] = NoResult]
    /\ UNCHANGED <<prov, hist, steps, pure, ctx>>

\* one digit of the serial number is drawn; with the third digit the
\* checksum is computed, and the loop and cpr() return when it is not 10,
\* else the loop starts over
CprDigit ==
    /\ cpr.pc = "serial"
    /\ \E d \in SerialDigit(StOf(1)) :
       \E serial_number \in {cpr.serial \o Str(d.val[1])} :
          IF Len(serial_number) < 3
          THEN /\ rnd' = [rnd EXCEPT ![prov[1].random] = d.st]
               /\ cpr' = [cpr EXCEPT !.serial = serial_number]
               /\ res' = res
          ELSE \E checksum \in {calculate_checksum(cpr.century \o serial_number)} :
               IF checksum # 10
               THEN /\ rnd' = [rnd EXCEPT ![prov[1].random] = d.st]
                    /\ cpr' = [cpr EXCEPT !.pc = "idle", !.serial = <<>>]
                    /\ res' = [res EXCEPT ![1] =
                                  [op |-> "cpr", err |-> "",
                                   val |-> cpr.century \o serial_number \o Str(checksum)]]
               ELSE \E top \in LoopTop(d.st, cpr.century) :
                       /\ rnd' = [rnd EXCEPT ![prov[1].random] = top.st]
                       /\ cpr' = [cpr EXCEPT !.century = top.val, !.serial = <<>>,
                                             !.retried = TRUE]
                       /\ res' = res
    /\ UNCHANGED <<prov, hist, steps, pure, ctx>>

\* the draw of a third digit with which cpr() returns
CprReturn == CprDigit /\ cpr'.pc = "idle"

\* another draw from the provider's random object between two calls of cpr()
CprDraw ==
    /\ cpr.pc = "idle"
    /\ \E o \in randint(StOf(1), 0, 9) :
          /\ rnd' = [rnd EXCEPT ![prov[1].random] = o.st]
          /\ res' = [res EXCEPT ![1] = [op |-> "randint", err |-> o.err, val |-> o.val]]
    /\ cpr' = NoCpr
    /\ UNCHANGED <<prov, hist, steps, pure, ctx>>

\* provider.reseed(seed) with an explicit seed between two calls of cpr()
CprReseed ==
    /\ cpr.pc = "idle"
    /\ \E seed \in Seeds :
          /\ rnd' = [rnd EXCEPT ![prov[1].random] = reseed(prov[1], StOf(1), seed).st]
          /\ prov' = [prov EXCEPT ![1] = reseed(prov[1], StOf(1), seed).pr]
          /\ hist' = [hist EXCEPT ![1] = NewHist(seed, hist[1].obj)]
    /\ res' = [res EXCEPT ![1] = NoResult]
    /\ cpr' = NoCpr
    /\ UNCHANGED <<steps, pure, ctx>>

InitCpr ==
    /\ \E s1 \in Seeds \cup {MissingSeed} : ConstructedCore(s1, s1)
    /\ pure = NoPure
    /\ cpr = NoCpr
    /\ ctx = NoCtx

NextCpr ==
    \/ CprBegin
    \/ CprDigit
    \/ CprDraw
    \/ CprReseed

SpecCpr == InitCpr /\ [][NextCpr]_vars

\* A draw that is due is made, and a draw that makes cpr() return is made if
\* it is possible again and again: no digit is withheld for ever.
FairSpecCpr == SpecCpr /\ WF_vars(CprDigit) /\ SF_vars(CprReturn)

\* C8: a value returned by cpr() is 10 digits; with s the sum of the first
\* nine digits under the weights (4,3,2,7,6,5,4,3,2), s mod 11 is not 1 and
\* the tenth digit is 11 - (s mod 11), or 0 when s mod 11 = 0.
C8_CprValid ==
    (res[1].op = "cpr" /\ res[1].err = "")
        => LET v == res[1].val
               s == WeightedSum(<<4, 3, 2, 7, 6, 5, 4, 3, 2>>, DigitValues(SubSeq(v, 1, 9)))
           IN  /\ Len(v) = 10
               /\ \A i \in 1..10 : IsDigit(v[i])
               /\ s % 11 # 1
               /\ DigitVal(v[10]) = IF s % 11 = 0 THEN 0 ELSE 11 - (s % 11)

\* cpr() returned a number whose weighted sum is a multiple of 11
C8_Witness ==
    /\ res[1].op = "cpr" /\ res[1].err = ""
    /\ Len(res[1].val) = 10
    /\ WeightedSum(<<4, 3, 2, 7, 6, 5, 4, 3, 2>>, DigitValues(SubSeq(res[1].val, 1, 9))) % 11 = 0

\* C9: the date digits of the value returned by cpr(), and the date digits
\* used by every iteration of the loop, are the ones drawn before the first
\* iteration.
C9_DateDrawnOnce ==
    /\ cpr.pc = "serial" => cpr.century = cpr.first
    /\ (res[1].op = "cpr" /\ res[1].err = "")
          => (Len(cpr.first) = 6 /\ SubSeq(res[1].val, 1, 6) = cpr.first)

\* cpr() returned after a serial was rejected
C9_Witness ==
    /\ res[1].op = "cpr" /\ res[1].err = ""
    /\ cpr.retried
    /\ cpr.pc = "idle"

\* every date prefix ddmmyy has a serial whose checksum is not 10
EveryPrefixHasSerial ==
    \A dd \in 1..31, mm \in 1..12, yy \in 0..99 :
        \E s1 \in 0..9, s2 \in 0..9, s3 \in 0..9 :
            calculate_checksum(ZeroPad(dd, 2) \o ZeroPad(mm, 2) \o ZeroPad(yy, 2)
                               \o JoinInts(<<s1, s2, s3>>)) # 10

\* C10: every date prefix has a serial with a checksum other than 10, and
\* under fair draws a loop that was entered returns, with a one-digit
\* checksum.
C10_LoopTerminates ==
    /\ EveryPrefixHasSerial
    /\ (cpr.pc = "serial")
          ~> (cpr.pc = "idle" /\ res[1].op = "cpr" /\ Len(res[1].val) = 10)

\* the loop has started over and drawn two digits of another serial
C10_Witness == cpr.pc = "serial" /\ cpr.retried /\ Len(cpr.serial) = 2

---------------------------------------------------------------------------
(* mimesis/builtins/pt_br.py, ru.py, it.py; pl.py and en.py as above:      *)
(* the national identifiers, called by one seeded session.                 *)

\* provider 1 issues the call c, whose possible outcomes are outs; the
\* history keeps the call just issued
EmitCall(c, outs) ==
    /\ \E o \in outs :
          /\ rnd' = [rnd EXCEPT ![prov[1].random] = o.st]
          /\ res' = [res EXCEPT ![1] = [op |-> c.op, err |-> o.err, val |-> o.val]]
    /\ hist' = [hist EXCEPT ![1].calls = <<c>>, ![1].drawn = TRUE]
    /\ UNCHANGED <<prov, steps, pure, cpr, ctx>>

\* the call provider 1 issued last
LastCall == hist[1].calls[Len(hist[1].calls)]

\* True and False as arguments
PyTrue == 1
PyFalse == 0

\* a verifying digit without the rule for remainders below 2
get_verifying_digit_cpf_plain(cpf, weight) ==
    11 - (SumSeq([j \in 1..Len(cpf) |-> cpf[j] * (weight - (j - 1))]) % 11)

\* BrazilSpecProvider.__get_verifying_digit_cpf(cpf, weight)
get_verifying_digit_cpf(cpf, weight) ==
    LET total == SumSeq([j \in 1..Len(cpf) |-> cpf[j] * (weight - (j - 1))])
        remainder == total % 11
    IN  IF remainder < 2 THEN 0 ELSE 11 - remainder

\* BrazilSpecProvider.cpf(with_mask)
cpf(st, with_mask) ==
    {LET cpf9 == r.val
         cpf10 == Append(cpf9, get_verifying_digit_cpf(cpf9, 10))
         cpf11 == Append(cpf10, get_verifying_digit_cpf(cpf10, 11))
         d == [j \in 1..11 |-> Str(cpf11[j])]
     IN  Ret(IF with_mask = PyTrue
             THEN d[1] \o d[2] \o d[3] \o <<46>> \o d[4] \o d[5] \o d[6] \o <<46>>
                  \o d[7] \o d[8] \o d[9] \o <<45>> \o d[10] \o d[11]
             ELSE JoinInts(cpf11),
             r.st)
     : r \in RandintList(st, 9, 0, 9)}

\* BrazilSpecProvider.__get_verifying_digit_cnpj(cnpj, weight)
get_verifying_digit_cnpj(cnpj, weight) ==
    LET total == SumSeq([j \in 1..Len(cnpj) |-> cnpj[j] * weight[j]])
        remainder == total % 11
    IN  IF remainder < 2 THEN 0 ELSE 11 - remainder

\* BrazilSpecProvider.cnpj(with_mask)
cnpj(st, with_mask) ==
    {LET cnpj12 == r.val \o <<0, 0, 0, 1>>
         cnpj13 == Append(cnpj12,
                          get_verifying_digit_cnpj(cnpj12, <<5, 4, 3, 2, 9, 8, 7, 6, 5, 4, 3, 2>>))
         cnpj14 == Append(cnpj13,
                          get_verifying_digit_cnpj(cnpj13, <<6, 5, 4, 3, 2, 9, 8, 7, 6, 5, 4, 3, 2>>))
         d == [j \in 1..14 |-> Str(cnpj14[j])]
     IN  Ret(IF with_mask = PyTrue
             THEN d[1] \o d[2] \o <<46>> \o d[3] \o d[4] \o d[5] \o <<46>>
                  \o d[6] \o d[7] \o d[8] \o <<47>> \o d[9] \o d[10] \o d[11] \o d[12]
                  \o <<45>> \o d[13] \o d[14]
             ELSE JoinInts(cnpj14),
             r.st)
     : r \in RandintList(st, 8, 0, 9)}

CpfGen ==
    \E with_mask \in {PyTrue, PyFalse} :
        EmitCall(Call("cpf", <<with_mask>>), cpf(StOf(1), with_mask))

CnpjGen ==
    \E with_mask \in {PyTrue, PyFalse} :
        EmitCall(Call("cnpj", <<with_mask>>), cnpj(StOf(1), with_mask))

\* the digit that validates the digits ds under the weights ws: 0 when the
\* weighted sum mod 11 is below 2, else 11 minus it
Mod11Digit(ds, ws) ==
    LET r == SumSeq([j \in 1..Len(ws) |-> ds[j] * ws[j]]) % 11
    IN  IF r < 2 THEN 0 ELSE 11 - r

\* C11: the 10th digit of a CPF validates the first 9 digits (weights 10..2)
\* and the 11th validates the first 10 (weights 11..2); a CNPJ is 8 digits
\* followed by 0001 and its 13th and 14th digits validate the digits before
\* them under (5,4,3,2,9,8,7,6,5,4,3,2) and (6,5,4,3,2,9,8,7,6,5,4,3,2).
C11_BrazilSequential ==
    /\ (res[1].op = "cpf" /\ res[1].err = "")
          => LET d == DigitValues(OnlyDigits(res[1].val))
             IN  /\ Len(d) = 11
                 /\ d[10] = Mod11Digit(d, <<10, 9, 8, 7, 6, 5, 4, 3, 2>>)
                 /\ d[11] = Mod11Digit(d, <<11, 10, 9, 8, 7, 6, 5, 4, 3, 2>>)
    /\ (res[1].op = "cnpj" /\ res[1].err = "")
          => LET d == DigitValues(OnlyDigits(res[1].val))
             IN  /\ Len(d) = 14
                 /\ SubSeq(d, 9, 12) = <<0, 0, 0, 1>>
                 /\ d[13] = Mod11Digit(d, <<5, 4, 3, 2, 9, 8, 7, 6, 5, 4, 3, 2>>)
                 /\ d[14] = Mod11Digit(d, <<6, 5, 4, 3, 2, 9, 8, 7, 6, 5, 4, 3, 2>>)

\* a CPF was returned whose first verifying digit comes from a remainder
\* below 2 and whose second does not
C11_Witness ==
    /\ res[1].op = "cpf" /\ res[1].err = ""
    /\ LET d == DigitValues(OnlyDigits(res[1].val))
       IN  /\ SumSeq([j \in 1..9 |-> d[j] * (11 - j)]) % 11 < 2
           /\ d[11] # 0

SsnGen == EmitCall(Call("ssn", <<>>), ssn(StOf(1)))

\* C12: a value returned by ssn() is AAA-GG-SSSS, three, two and four
\* digits, with AAA not 666 and GG not 00.
C12_SsnForm ==
    (res[1].op = "ssn" /\ res[1].err = "")
        => LET v == res[1].val
           IN  /\ Len(v) = 11
               /\ \A i \in 1..11 : IF i \in {4, 7} THEN v[i] = 45 ELSE IsDigit(v[i])
               /\ SubSeq(v, 1, 3) # <<54, 54, 54>>
               /\ SubSeq(v, 5, 6) # <<48, 48>>

\* ssn() returned a number of the area 667, the area given in place of 666
C12_Witness ==
    /\ res[1].op = "ssn" /\ res[1].err = ""
    /\ SubSeq(res[1].val, 1, 3) = <<54, 54, 55>>

\* arguments of pesel: a birth date in each century the month field tells
\* apart, or None, followed by the gender
PeselArgs ==
    {<<1850, 1, 1, Male>>, <<1990, 5, 17, Female>>, <<1999, 11, 30, Male>>,
     <<2001, 12, 31, NoneArg>>, <<2150, 10, 9, Female>>, <<2299, 2, 28, Male>>,
     <<Female>>}

PeselGen ==
    \E args \in PeselArgs :
        EmitCall(Call("pesel", args),
                 pesel(StOf(1), SubSeq(args, 1, Len(args) - 1), args[Len(args)]))

\* the gender argument of the last call, a pesel call
PeselGenderArg == LastCall.args[Len(LastCall.args)]

\* C13: the 10th digit of pesel(gender=g) is even when g is female and odd
\* when g is male.
C13_PeselGenderParity ==
    (res[1].op = "pesel" /\ res[1].err = "" /\ PeselGenderArg \in {Male, Female})
        => LET d == DigitVal(res[1].val[10])
           IN  IF PeselGenderArg = Female THEN d % 2 = 0 ELSE d % 2 = 1

\* pesel(gender=FEMALE) returned a number
C13_Witness ==
    /\ res[1].op = "pesel" /\ res[1].err = ""
    /\ PeselGenderArg = Female
    /\ Len(res[1].val) >= 10

\* the offset of the month field for the century of a year
CenturyOffset(year) ==
    CASE year \in 1800..1899 -> 80
      [] year \in 1900..1999 -> 0
      [] year \in 2000..2099 -> 20
      [] year \in 2100..2199 -> 40
      [] year \in 2200..2299 -> 60

\* C14: pesel(birth_date) is 11 digits: the year mod 100, the month plus the
\* offset of the century, the day, three digits, the gender digit, and the
\* check digit (10 - (sum mod 10)) mod 10 of the first ten digits under the
\* weights (1,3,7,9,1,3,7,9,1,3).
C14_PeselLayout ==
    (res[1].op = "pesel" /\ res[1].err = "" /\ Len(LastCall.args) = 4)
        => LET v == res[1].val
               year == LastCall.args[1]
               month == LastCall.args[2]
               day == LastCall.args[3]
           IN  /\ Len(v) = 11
               /\ \A i \in 1..11 : IsDigit(v[i])
               /\ LET d == DigitValues(v)
                      w == <<1, 3, 7, 9, 1, 3, 7, 9, 1, 3>>
                  IN  /\ 10 * d[1] + d[2] = year % 100
                      /\ 10 * d[3] + d[4] = month + CenturyOffset(year)
                      /\ 10 * d[5] + d[6] = day
                      /\ d[11] = (10 - (SumSeq([j \in 1..10 |-> d[j] * w[j]]) % 10)) % 10

\* pesel returned a number for a birth date of the 22nd century
C14_Witness ==
    /\ res[1].op = "pesel" /\ res[1].err = ""
    /\ Len(LastCall.args) = 4
    /\ LastCall.args[1] = 2150
    /\ Len(res[1].val) = 11

\* calculate_checksum(number) inside snils: number is the list of digits
snils_calculate_checksum(number) ==
    LET total == SumSeq([j \in 1..Len(number) |-> (9 - (j - 1)) * number[j]])
    IN  IF total < 100 THEN total
        ELSE IF total = 100 \/ total = 101 THEN 0
        ELSE total % 101

\* RussiaSpecProvider.snils(): f"{number}{checksum:02d}"
snils(st) ==
    {Ret(JoinInts(number.val) \o ZeroPad(snils_calculate_checksum(number.val), 2), number.st)
     : number \in RandintList(st, 9, 0, 9)}

SnilsGen == EmitCall(Call("snils", <<>>), snils(StOf(1)))

\* sum of (9 - position) * digit over the first nine characters
SnilsSum(val) == SumSeq([j \in 1..9 |-> (9 - (j - 1)) * DigitVal(val[j])])

\* C15: every value returned by snils() is exactly 11 digits, the last two
\* being the check of the first nine: the sum if it is below 100, 00 if it
\* is 100 or 101, the sum modulo 101 otherwise
C15_SnilsForm ==
    (res[1].op = "snils" /\ res[1].err = "") =>
        /\ Len(res[1].val) = 11
        /\ \A j \in 1..Len(res[1].val) : IsDigit(res[1].val[j])
        /\ LET total == SnilsSum(res[1].val)
               check == IF total < 100 THEN total
                        ELSE IF total \in {100, 101} THEN 0
                        ELSE total % 101
           IN  SubSeq(res[1].val, 10, 11) = ZeroPad(check, 2)

\* the list indexed at the even 0-based positions in fiscal_code
FiscalOddTable == <<1, 0, 5, 7, 9, 13, 15, 17, 19, 21>>

\* 'ABCDEHLMPRST'
FiscalMonths == <<65, 66, 67, 68, 69, 72, 76, 77, 80, 82, 83, 84>>

\* s[start::2] of Python, 0-based start
EveryOther(s, start) ==
    [k \in 1..((Len(s) - start + 1) \div 2) |-> s[start + 1 + 2 * (k - 1)]]

\* the check character of fiscal_code: <<>> when a list index is out of range
FiscalCheck(code) ==
    LET evens == EveryOther(code, 1)
        odds == EveryOther(code, 0)
        idx(c) == IF IsDigit(c) THEN DigitVal(c) ELSE c - 65
        even_sum == SumSeq([k \in 1..Len(evens) |->
                        IF IsDigit(evens[k]) THEN DigitVal(evens[k]) ELSE evens[k] - 55])
    IN  IF \E k \in 1..Len(odds) : idx(odds[k]) >= Len(FiscalOddTable)
        THEN <<>>
        ELSE <<((even_sum + SumSeq([k \in 1..Len(odds) |-> FiscalOddTable[idx(odds[k]) + 1]]))
                   % 26) + 65>>

\* ItalySpecProvider.fiscal_code(gender)
fiscal_code(st, gender) ==
    UNION {UNION {UNION {UNION {UNION {
        {LET d == IF gender = Female THEN day.val[1] + 40 ELSE day.val[1]
             code == surname.val \o name.val \o ZeroPad(year.val[1], 2)
                        \o month.val \o ZeroPad(d, 2) \o place.val
             check == FiscalCheck(code)
         IN  IF check = <<>> THEN Exc("IndexError", place.st)
             ELSE Ret(code \o check, place.st)
         : place \in ChoiceList(day.st, AsciiUppercase \o Digits, 4)}
        : day \in randint(month.st, 1, 31)}
        : month \in choice(year.st, FiscalMonths)}
        : year \in randint(name.st, 0, 99)}
        : name \in ChoiceList(surname.st, AsciiUppercase, 3)}
        : surname \in ChoiceList(st, AsciiUppercase, 3)}

FiscalCodeGen ==
    \E gender \in {NoneArg, Male, Female} :
        EmitCall(Call("fiscal_code", <<gender>>), fiscal_code(StOf(1), gender))

IsUpper(c) == c >= 65 /\ c <= 90

\* the remap table of the Italian fiscal code for the digits 0..9 and the
\* letters A..Z
FiscalRemap ==
    <<1, 0, 5, 7, 9, 13, 15, 17, 19, 21, 2, 4, 18, 20, 11, 3, 6, 8, 12, 14,
      16, 10, 22, 25, 24, 23>>

\* the check letter described for the first fifteen characters
FiscalCheckLetter(code) ==
    LET direct(c) == IF IsDigit(c) THEN DigitVal(c) ELSE c - 55
        mapped(c) == FiscalRemap[(IF IsDigit(c) THEN DigitVal(c) ELSE c - 65) + 1]
    IN  (SumSeq([k \in 1..15 |-> IF (k - 1) % 2 = 0 THEN direct(code[k])
                                  ELSE mapped(code[k])]) % 26) + 65

\* C16: for every draw and gender, fiscal_code returns 16 characters: six
\* letters, two digits of year, a month letter, two digits of day (above 40
\* for a female), four alphanumeric characters and the check letter of the
\* first fifteen
C16_FiscalCode ==
    (res[1].op = "fiscal_code") =>
        /\ res[1].err = ""
        /\ Len(res[1].val) = 16
        /\ \A j \in 1..6 : IsUpper(res[1].val[j])
        /\ IsDigit(res[1].val[7]) /\ IsDigit(res[1].val[8])
        /\ \E k \in 1..Len(FiscalMonths) : res[1].val[9] = FiscalMonths[k]
        /\ IsDigit(res[1].val[10]) /\ IsDigit(res[1].val[11])
        /\ LET day == 10 * DigitVal(res[1].val[10]) + DigitVal(res[1].val[11])
           IN  IF LastCall.args[1] = Female THEN day \in 41..71 ELSE day \in 1..31
        /\ \A j \in 12..15 : IsUpper(res[1].val[j]) \/ IsDigit(res[1].val[j])
        /\ res[1].val[16] = FiscalCheckLetter(res[1].val)

\* One seeded session calling the national identifier generators.
InitNat ==
    /\ \E s1 \in Seeds : ConstructedCore(s1, s1)
    /\ pure = NoPure
    /\ cpr = NoCpr
    /\ ctx = NoCtx

NextNat ==
    \/ CpfGen
    \/ CnpjGen
    \/ SsnGen
    \/ PeselGen

SpecNat == InitNat /\ [][NextNat]_vars

\* One seeded session calling the generators of the Russian and Italian
\* providers.
NextTax ==
    \/ SnilsGen
    \/ FiscalCodeGen

SpecTax == InitNat /\ [][NextTax]_vars

---------------------------------------------------------------------------
(* The ISBN check digit as a function of its argument. *)

MaxIsbnLen == 2

\* Code._calculate_isbn_check_digit(isbn): 'X' is 88
calculate_isbn_check_digit(isbn) ==
    LET total == SumSeq([j \in 1..Len(isbn) |->
                     (IF isbn[j] = 88 THEN 10 ELSE DigitVal(isbn[j])) * (10 - (j - 1))])
        check == (11 - (total % 11)) % 11
    IN  IF check = 10 THEN <<88>> ELSE Str(check)

\* "978030640615"
IsbnSample == <<57, 55, 56, 48, 51, 48, 54, 52, 48, 54, 49, 53>>

IsbnInputs ==
    UNION {[1..n -> 48..57] : n \in 0..MaxIsbnLen} \cup {IsbnSample}

InitIsbn ==
    /\ ConstructedCore(1, 1)
    /\ \E isbn \in IsbnInputs :
          pure = [fn |-> "_calculate_isbn_check_digit", arg |-> isbn, out |-> <<>>]
    /\ cpr = NoCpr
    /\ ctx = NoCtx

IsbnCheckDigitAct ==
    /\ pure.fn = "_calculate_isbn_check_digit"
    /\ pure.out = <<>>
    /\ pure' = [pure EXCEPT !.out = calculate_isbn_check_digit(pure.arg)]
    /\ UNCHANGED <<rnd, prov, res, hist, steps, cpr, ctx>>

NextIsbn == IsbnCheckDigitAct

SpecIsbn == InitIsbn /\ [][NextIsbn]_vars

\* C17: the check digit computed for 978030640615 is 2
C17_IsbnExample ==
    (pure.fn = "_calculate_isbn_check_digit" /\ pure.arg = IsbnSample /\ pure.out # <<>>) =>
        pure.out = <<DigitChar(2)>>

---------------------------------------------------------------------------
(* weighted_choice and generate_string_by_mask on one random object. *)

\* the mappings passed to weighted_choice, as lists of <<key, weight>> in
\* insertion order
WeightedMappings ==
    { <<>>,
      <<<<1, 2>>>>,
      <<<<1, 1>>, <<2, 3>>>>,
      <<<<1, 3>>, <<2, 0>>>>,
      <<<<1, 0>>, <<2, 3>>>>,
      <<<<1, 0>>, <<2, 1>>, <<3, 0>>>> }

\* the mapping as k1, w1, k2, w2, ...
FlatItems(choices) ==
    [j \in 1..(2 * Len(choices)) |-> choices[(j + 1) \div 2][IF j % 2 = 1 THEN 1 ELSE 2]]

WeightedChoiceCall ==
    \E choices \in WeightedMappings :
        EmitCall(Call("weighted_choice", FlatItems(choices)),
                 weighted_choice(StOf(1), choices))

\* <<char, digit>> followed by the mask: "###-AA", "@#-", "@@@" and "" with
\* the default placeholders, "A#-A" with the placeholder 'A' for characters
\* and "9X-#A" with 'X' for characters and '9' for digits
MaskArgs ==
    { <<64, 35, 35, 35, 35, 45, 65, 65>>,
      <<64, 35, 64, 35, 45>>,
      <<64, 35, 64, 64, 64>>,
      <<64, 35>>,
      <<65, 35, 65, 35, 45, 65>>,
      <<88, 57, 57, 88, 45, 35, 65>> }

MaskCall ==
    \E a \in MaskArgs :
        EmitCall(Call("generate_string_by_mask", a),
                 generate_string_by_mask(StOf(1), SubSeq(a, 3, Len(a)), a[1], a[2]))

\* One random object, seeded or not.
InitRand ==
    /\ \E s1 \in Seeds \cup {MissingSeed} : ConstructedCore(s1, s1)
    /\ pure = NoPure
    /\ cpr = NoCpr
    /\ ctx = NoCtx

NextRand ==
    \/ WeightedChoiceCall
    \/ MaskCall

SpecRand == InitRand /\ [][NextRand]_vars

\* the keys of positive weight of the last call's mapping
PositiveKeys ==
    {LastCall.args[2 * i - 1] : i \in {i \in 1..(Len(LastCall.args) \div 2) :
                                           LastCall.args[2 * i] > 0}}

\* C18: when exactly one key of the mapping has a positive weight,
\* weighted_choice returns that key, whatever the uniform draw
C18_SinglePositiveKey ==
    (res[1].op = "weighted_choice" /\ res[1].err = "" /\ Cardinality(PositiveKeys) = 1) =>
        /\ res[1].val # <<>>
        /\ res[1].val[1] \in PositiveKeys

\* C19: weighted_choice on an empty mapping fails with the error raised for
\* an empty choice and returns no key; on a mapping with entries it does
\* not fail
C19_EmptyMappingFails ==
    (res[1].op = "weighted_choice") =>
        /\ (LastCall.args = <<>>) => (res[1].err = "ValueError" /\ res[1].val = <<>>)
        /\ (LastCall.args # <<>>) => res[1].err = ""

\* weighted_choice was called with an empty mapping and raised
C19_Witness ==
    /\ res[1].op = "weighted_choice"
    /\ LastCall.args = <<>>
    /\ res[1].err = "ValueError"

\* C20: the string returned for a mask has the length of the mask; where
\* the mask holds the character placeholder it has a letter A-Z, where the
\* mask holds the digit placeholder a digit 0-9, elsewhere the character of
\* the mask
C20_MaskShape ==
    (res[1].op = "generate_string_by_mask") =>
        LET char == LastCall.args[1]
            digit == LastCall.args[2]
            mask == SubSeq(LastCall.args, 3, Len(LastCall.args))
        IN  /\ res[1].err = ""
            /\ Len(res[1].val) = Len(mask)
            /\ \A j \in 1..Len(mask) :
                  IF mask[j] = char THEN res[1].val[j] \in 65..90
                  ELSE IF mask[j] = digit THEN IsDigit(res[1].val[j])
                  ELSE res[1].val[j] = mask[j]

\* the mask ###-AA returned three digits followed by -AA
C20_Witness ==
    /\ res[1].op = "generate_string_by_mask"
    /\ LastCall.args = <<64, 35, 35, 35, 35, 45, 65, 65>>
    /\ Len(res[1].val) = 6
    /\ SubSeq(res[1].val, 4, 6) = <<45, 65, 65>>
    /\ IsDigit(res[1].val[1])

---------------------------------------------------------------------------
(* validate_enum on one provider. *)

\* the enums passed to validate_enum
Enums == <<CardType, EANFormat, Gender>>

\* the members of an enum, as a set
Members(enum) == {enum[i] : i \in 1..Len(enum)}

\* None, the members, a string naming a member, and values that are neither
EnumItems == {NoneArg, NotAMember} \cup 1..3 \cup {MemberName(m) : m \in 1..3}

ValidateEnumCall ==
    \E e \in 1..Len(Enums), item \in EnumItems :
        EmitCall(Call("validate_enum", <<item, e>>), validate_enum(StOf(1), item, Enums[e]))

\* a draw that moves the random object on, so that validate_enum is called
\* in every state of a seeded object
EnumDraw == EmitCall(Call("randint", <<0, 9>>), randint(StOf(1), 0, 9))

NextEnum ==
    \/ ValidateEnumCall
    \/ EnumDraw

SpecEnum == InitRand /\ [][NextEnum]_vars

\* C21: validate_enum(item, enum) returns item when item is a member of
\* enum, some member when item is None, and fails with NonEnumerableError
\* for every other item; what it returns is a member of enum
C21_ValidateEnum ==
    (res[1].op = "validate_enum") =>
        LET item == LastCall.args[1]
            enum == Enums[LastCall.args[2]]
        IN  /\ (item \in Members(enum)) => (res[1].err = "" /\ res[1].val = <<item>>)
            /\ (item = NoneArg) => (res[1].err = "" /\ res[1].val[1] \in Members(enum))
            /\ (item # NoneArg /\ item \notin Members(enum)) =>
                   res[1].err = "NonEnumerableError"
            /\ (res[1].err = "") => res[1].val[1] \in Members(enum)

---------------------------------------------------------------------------
(* The gendered generators called with any gender argument. *)

\* None, the two members of Gender, and a value that is no gender
GenderArgs == {NoneArg, Male, Female, NotAMember}

PeselGenderCall ==
    \E gender \in GenderArgs :
        EmitCall(Call("pesel", <<1990, 5, 17, gender>>),
                 pesel(StOf(1), <<1990, 5, 17>>, gender))

FiscalCodeGenderCall ==
    \E gender \in GenderArgs :
        EmitCall(Call("fiscal_code", <<gender>>), fiscal_code(StOf(1), gender))

NextGender ==
    \/ PeselGenderCall
    \/ FiscalCodeGenderCall

SpecGender == InitNat /\ [][NextGender]_vars

\* the errors that report a rejected argument
InvalidArgumentErrors == {"NonEnumerableError", "ValueError"}

\* C22: pesel and fiscal_code called with a gender that is neither None nor
\* a member of Gender fail with an invalid-argument error and return no
\* identifier
C22_BadGenderRejected ==
    (res[1].op \in {"pesel", "fiscal_code"}
        /\ LastCall.args[Len(LastCall.args)] \notin {NoneArg, Male, Female}) =>
        /\ res[1].err \in InvalidArgumentErrors
        /\ res[1].val = <<>>

---------------------------------------------------------------------------
(* mimesis/builtins/en.py: tracking_number *)

\* str.lower() on ASCII text
Lower(s) == [j \in 1..Len(s) |-> IF s[j] >= 65 /\ s[j] <= 90 THEN s[j] + 32 ELSE s[j]]

\* "usps", "fedex", "ups"
Usps == <<117, 115, 112, 115>>
Fedex == <<102, 101, 100, 101, 120>>
Ups == <<117, 112, 115>>

RECURSIVE RandintGroups(_, _)
\* f"{self.random.randint(a1, b1)} {self.random.randint(a2, b2)} ...": the
\* numbers drawn in order for the ranges, joined by spaces
RandintGroups(st, ranges) ==
    IF ranges = <<>> THEN {Ret(<<>>, st)}
    ELSE UNION {{Ret(Str(h.val[1]) \o (IF Len(ranges) > 1 THEN <<32>> ELSE <<>>) \o t.val, t.st)
                 : t \in RandintGroups(h.st, Tail(ranges))}
                : h \in randint(st, ranges[1][1], ranges[1][2])}

\* the usps branch
TrackUsps(st) ==
    RandintGroups(st, <<<<1000, 9999>>, <<1000, 9999>>, <<1000, 9999>>, <<1000, 9999>>,
                        <<10, 99>>>>)

\* the fedex branch
TrackFedex(st) ==
    RandintGroups(st, <<<<1000, 9999>>, <<1000, 9999>>, <<1000, 9999>>>>)

\* the ups branch: "1Z ddd Ldd dddd dddd d"
TrackUps(st) ==
    UNION {UNION {UNION {
        {Ret(<<49, 90, 32>> \o Str(area.val[1]) \o <<32>> \o letter.val \o Str(two.val[1])
                 \o <<32>> \o rest.val, rest.st)
         : rest \in RandintGroups(two.st, <<<<1000, 9999>>, <<1000, 9999>>, <<1, 9>>>>)}
        : two \in randint(letter.st, 10, 99)}
        : letter \in choice(area.st, AsciiUppercase)}
        : area \in randint(st, 100, 999)}

\* a tracking_number that takes an unknown service for usps
tracking_number_default(st, service) ==
    IF Lower(service) = Fedex THEN TrackFedex(st)
    ELSE IF Lower(service) = Ups THEN TrackUps(st)
    ELSE TrackUsps(st)

\* USASpecProvider.tracking_number(service)
tracking_number(st, service) ==
    IF Lower(service) = Usps THEN TrackUsps(st)
    ELSE IF Lower(service) = Fedex THEN TrackFedex(st)
    ELSE IF Lower(service) = Ups THEN TrackUps(st)
    ELSE {Exc("ValueError", st)}

\* "usps", "USPS", "FedEx", "fedex", "ups", "UPS", "dhl", "usp", "upss", ""
Services ==
    { Usps, <<85, 83, 80, 83>>, <<70, 101, 100, 69, 120>>, Fedex, Ups, <<85, 80, 83>>,
      <<100, 104, 108>>, <<117, 115, 112>>, <<117, 112, 115, 115>>, <<>> }

TrackingNumberCall ==
    \E service \in Services :
        EmitCall(Call("tracking_number", service), tracking_number(StOf(1), service))

NextTrack == TrackingNumberCall

SpecTrack == InitNat /\ [][NextTrack]_vars

\* C23: tracking_number fails with the error for an unsupported option, and
\* returns nothing, when the service compared without regard to case is
\* none of usps, fedex, ups; for these three it returns a value
C23_TrackingService ==
    (res[1].op = "tracking_number") =>
        IF Lower(LastCall.args) \in {Usps, Fedex, Ups}
        THEN res[1].err = "" /\ res[1].val # <<>>
        ELSE res[1].err = "ValueError" /\ res[1].val = <<>>

\* tracking_number("dhl") was refused
C23_Witness ==
    /\ res[1].op = "tracking_number"
    /\ LastCall.args = <<100, 104, 108>>
    /\ res[1].err = "ValueError"

---------------------------------------------------------------------------
(* mimesis/providers/base.py: the locale and dataset of a data provider. *)

MaxObjs == 9        \* dict objects allocated in one behaviour
MaxDepth == 2       \* override_locale scopes open at once

\* Locale members with a dataset for the provider, a member without one,
\* and a value validate_locale refuses
LocaleEN == 1
LocaleDE == 2
LocaleNoData == 3
LocaleInvalid == 9

\* dict objects live in ctx.heap and are named by their index.  A dict has
\* the top-level keys "a", "b", "k" and the nested key "n"; an entry is a
\* scalar, a reference to a nested dict, or absent.
DictKeys == {"a", "b", "k", "n"}
Scalar(v) == [t |-> "s", v |-> v]
Ref(id) == [t |-> "r", v |-> id]
Absent == [t |-> "-", v |-> 0]
EmptyDict == [key \in DictKeys |-> Absent]

\* json.load of the provider's file for a locale: {"a": l, "k": {"n": l}},
\* built from fresh objects appended to the heap; the last one is the
\* dataset
LoadedHeap(heap, locale) ==
    heap \o << [EmptyDict EXCEPT !["n"] = Scalar(locale)],
               [EmptyDict EXCEPT !["a"] = Scalar(locale), !["k"] = Ref(Len(heap) + 1)] >>

\* the value of the dict at ref, nested dicts read through
Deep(heap, ref) ==
    [key \in DictKeys |->
        IF heap[ref][key].t = "r" THEN [t |-> "d", v |-> heap[heap[ref][key].v]]
        ELSE heap[ref][key]]

\* validate_locale(locale): the error raised, "" when the locale is valid
validate_locale(locale) ==
    IF locale \in {LocaleEN, LocaleDE, LocaleNoData} THEN "" ELSE "UnsupportedLocale"

\* BaseDataProvider._load_dataset() with self.locale = locale: the error
\* raised, "" when the file is there.  base.py does not import
\* UnsupportedLocale, so the raise in the except clause is a NameError.
load_dataset_error(locale) ==
    IF locale \in {LocaleEN, LocaleDE} THEN "" ELSE "NameError"

NoLeft == [how |-> ""]

\* BaseDataProvider(locale): the state after construction
NewDataProvider(locale) ==
    [kind |-> "provider", locale |-> locale,
     heap |-> LoadedHeap(<<>>, locale), dataset |-> 2,
     stack |-> <<>>, raising |-> "", left |-> NoLeft]

\* the data passed to update_dataset: {"a": 7}, {"k": 8}, {"k": {"n": 7}},
\* {"b": {"n": 7}}
DataArgs ==
    { [key |-> "a", nested |-> FALSE, v |-> 7],
      [key |-> "k", nested |-> FALSE, v |-> 8],
      [key |-> "k", nested |-> TRUE, v |-> 7],
      [key |-> "b", nested |-> TRUE, v |-> 7] }

\* BaseDataProvider._update_dict(initial, other) for other = data, on the
\* dict object `initial`: the heap afterwards and the error raised
update_dict(heap, initial, data) ==
    IF ~data.nested
    THEN [heap |-> [heap EXCEPT ![initial][data.key] = Scalar(data.v)], err |-> ""]
    ELSE LET old == heap[initial][data.key]
         IN  IF old.t = "s"
             THEN \* initial.get(key, {}) is a number: item assignment fails
                  [heap |-> heap, err |-> "TypeError"]
             ELSE LET h1 == IF old.t = "-" THEN Append(heap, EmptyDict) ELSE heap
                      sub == IF old.t = "-" THEN Len(h1) ELSE old.v
                  IN  [heap |-> [h1 EXCEPT ![sub]["n"] = Scalar(data.v),
                                           ![initial][data.key] = Ref(sub)],
                       err |-> ""]

\* the ghost part of a frame: what the provider looked like on entry
Snapshot(c) == [locale |-> c.locale, data |-> Deep(c.heap, c.dataset)]

\* the finally block that restores the locale only
Restore_locale_only(c, frame) ==
    [c EXCEPT !.locale = frame.original_locale]

\* the finally block of override_locale
Restore(c, frame) ==
    [c EXCEPT !.locale = frame.original_locale, !.dataset = frame.original_dataset]

\* update_dataset(data), inside a scope or outside
UpdateDataset ==
    /\ ctx.kind = "provider" /\ ctx.raising = ""
    /\ Len(ctx.heap) < MaxObjs
    /\ \E data \in DataArgs :
          LET u == update_dict(ctx.heap, ctx.dataset, data)
          IN  ctx' = [ctx EXCEPT !.heap = u.heap, !.raising = u.err, !.left = NoLeft,
                                 !.stack = [i \in 1..Len(ctx.stack) |->
                                               [ctx.stack[i] EXCEPT !.updated = TRUE]]]
    /\ UNCHANGED <<rnd, prov, res, hist, steps, pure, cpr>>

\* entering `with provider.override_locale(locale)`: the locale and a
\* shallow copy of the dataset are kept, then _override_locale(locale) runs;
\* when it raises, the finally block runs at once and the body is not
\* entered
EnterScope ==
    /\ ctx.kind = "provider" /\ ctx.raising = ""
    /\ Len(ctx.stack) < MaxDepth
    /\ Len(ctx.heap) + 3 <= MaxObjs
    /\ \E locale \in {LocaleEN, LocaleDE, LocaleNoData, LocaleInvalid} :
          LET copied == Append(ctx.heap, ctx.heap[ctx.dataset])
              frame == [original_locale |-> ctx.locale,
                        original_dataset |-> Len(copied),
                        before |-> Snapshot(ctx), updated |-> FALSE]
              c1 == [ctx EXCEPT !.heap = copied]
          IN  IF validate_locale(locale) # ""
              THEN ctx' = [Restore(c1, frame) EXCEPT
                              !.raising = validate_locale(locale),
                              !.left = [how |-> "enter", before |-> frame.before,
                                        updated |-> FALSE, depth |-> Len(ctx.stack) + 1]]
              ELSE IF load_dataset_error(locale) # ""
              THEN ctx' = [Restore([c1 EXCEPT !.locale = locale], frame) EXCEPT
                              !.raising = load_dataset_error(locale),
                              !.left = [how |-> "enter", before |-> frame.before,
                                        updated |-> FALSE, depth |-> Len(ctx.stack) + 1]]
              ELSE ctx' = [c1 EXCEPT !.locale = locale,
                                     !.heap = LoadedHeap(copied, locale),
                                     !.dataset = Len(copied) + 2,
                                     !.stack = Append(ctx.stack, frame),
                                     !.left = NoLeft]
    /\ UNCHANGED <<rnd, prov, res, hist, steps, pure, cpr>>

\* leaving the innermost scope: at the end of the body, or because an error
\* is passing through
LeaveScope ==
    /\ ctx.kind = "provider"
    /\ ctx.stack # <<>>
    /\ LET frame == ctx.stack[Len(ctx.stack)]
       IN  ctx' = [Restore(ctx, frame) EXCEPT
                      !.stack = SubSeq(ctx.stack, 1, Len(ctx.stack) - 1),
                      !.left = [how |-> IF ctx.raising = "" THEN "normal" ELSE "error",
                                before |-> frame.before,
                                updated |-> frame.updated, depth |-> Len(ctx.stack)]]
    /\ UNCHANGED <<rnd, prov, res, hist, steps, pure, cpr>>

\* the body of a scope raises an error of its own
BodyRaises ==
    /\ ctx.kind = "provider" /\ ctx.raising = ""
    /\ ctx.stack # <<>>
    /\ ctx' = [ctx EXCEPT !.raising = "Exception", !.left = NoLeft]
    /\ UNCHANGED <<rnd, prov, res, hist, steps, pure, cpr>>

\* the caller catches the error that is passing
CatchError ==
    /\ ctx.kind = "provider" /\ ctx.raising # ""
    /\ ctx' = [ctx EXCEPT !.raising = "", !.left = NoLeft]
    /\ UNCHANGED <<rnd, prov, res, hist, steps, pure, cpr>>

InitLocale ==
    /\ ConstructedCore(1, 1)
    /\ pure = NoPure
    /\ cpr = NoCpr
    /\ \E locale \in {LocaleEN, LocaleDE} : ctx = NewDataProvider(locale)

NextLocale ==
    \/ UpdateDataset
    \/ EnterScope
    \/ LeaveScope
    \/ BodyRaises
    \/ CatchError

SpecLocale == InitLocale /\ [][NextLocale]_vars

\* C24: when an override_locale scope has just been left, by the end of its
\* body, by an error, or by a failed entry, the provider's locale and
\* dataset are what they were just before the scope was entered
C24_ScopeRestores ==
    (ctx.kind = "provider" /\ ctx.left # NoLeft) =>
        /\ ctx.locale = ctx.left.before.locale
        /\ Deep(ctx.heap, ctx.dataset) = ctx.left.before.data

\* a scope nested in another one was left by an error after
\* update_dataset was called in its body, the dataset seen on entry being
\* an updated one
C24_Witness ==
    /\ ctx.kind = "provider" /\ ctx.left # NoLeft
    /\ ctx.left.how = "error"
    /\ ctx.left.updated
    /\ ctx.left.depth = 2
    /\ ctx.left.before.locale # ctx.left.before.data["a"].v

---------------------------------------------------------------------------
(* mimesis/plugins/factory.py: FactoryField and its default locale. *)

LocaleRU == 4

FactoryLocales == {LocaleEN, LocaleDE, LocaleRU}

\* FactoryField as loaded: _default_locale = Locale.EN, no cached Field
NewFactory ==
    [kind |-> "factory", default_locale |-> LocaleEN,
     cached_instances |-> [l \in FactoryLocales |-> NoneArg],
     stack |-> <<>>, raising |-> "", left |-> NoLeft,
     evaluated |-> <<>>]

\* an evaluate that always takes the default locale
EvalLocale_default(self_locale, default_locale) == default_locale

\* self.locale or self._default_locale
EvalLocale(self_locale, default_locale) ==
    IF self_locale # NoneArg THEN self_locale ELSE default_locale

\* FactoryField._get_cached_instance(locale): the cache afterwards; the
\* Field kept under str(locale) was made with Field(locale=locale)
get_cached_instance(cache, locale) ==
    IF cache[locale] = NoneArg THEN [cache EXCEPT ![locale] = locale] ELSE cache

\* FactoryField(field, locale).evaluate(...): locale is NoneArg when the
\* field was created without one; `evaluated` records the locale of the
\* Field that produced the value
FactoryEvaluate ==
    /\ ctx.kind = "factory" /\ ctx.raising = ""
    /\ \E self_locale \in FactoryLocales \cup {NoneArg} :
          LET locale == EvalLocale(self_locale, ctx.default_locale)
              cache == get_cached_instance(ctx.cached_instances, locale)
          IN  ctx' = [ctx EXCEPT !.cached_instances = cache,
                                 !.evaluated = <<self_locale, cache[locale]>>,
                                 !.left = NoLeft]
    /\ UNCHANGED <<rnd, prov, res, hist, steps, pure, cpr>>

\* entering `with FactoryField.override_locale(locale)`
FactoryEnter ==
    /\ ctx.kind = "factory" /\ ctx.raising = ""
    /\ Len(ctx.stack) < MaxDepth
    /\ \E locale \in FactoryLocales :
          ctx' = [ctx EXCEPT !.stack = Append(ctx.stack,
                                          [old_locale |-> ctx.default_locale,
                                           entered |-> locale]),
                             !.default_locale = locale,
                             !.evaluated = <<>>,
                             !.left = NoLeft]
    /\ UNCHANGED <<rnd, prov, res, hist, steps, pure, cpr>>

\* leaving the innermost scope, at the end of the body or by an error: the
\* finally block
FactoryLeave ==
    /\ ctx.kind = "factory"
    /\ ctx.stack # <<>>
    /\ LET frame == ctx.stack[Len(ctx.stack)]
       IN  ctx' = [ctx EXCEPT !.default_locale = frame.old_locale,
                              !.stack = SubSeq(ctx.stack, 1, Len(ctx.stack) - 1),
                              !.evaluated = <<>>,
                              !.left = [how |-> IF ctx.raising = "" THEN "normal" ELSE "error",
                                        before |-> frame.old_locale,
                                        depth |-> Len(ctx.stack)]]
    /\ UNCHANGED <<rnd, prov, res, hist, steps, pure, cpr>>

\* the body of a scope raises
FactoryBodyRaises ==
    /\ ctx.kind = "factory" /\ ctx.raising = ""
    /\ ctx.stack # <<>>
    /\ ctx' = [ctx EXCEPT !.raising = "Exception", !.evaluated = <<>>, !.left = NoLeft]
    /\ UNCHANGED <<rnd, prov, res, hist, steps, pure, cpr>>

\* the caller catches the error that is passing
FactoryCatch ==
    /\ ctx.kind = "factory" /\ ctx.raising # ""
    /\ ctx' = [ctx EXCEPT !.raising = "", !.left = NoLeft]
    /\ UNCHANGED <<rnd, prov, res, hist, steps, pure, cpr>>

InitFactory ==
    /\ ConstructedCore(1, 1)
    /\ pure = NoPure
    /\ cpr = NoCpr
    /\ ctx = NewFactory

NextFactory ==
    \/ FactoryEvaluate
    \/ FactoryEnter
    \/ FactoryLeave
    \/ FactoryBodyRaises
    \/ FactoryCatch

SpecFactory == InitFactory /\ [][NextFactory]_vars

\* the locale of the innermost scope open, EN when none is
InnermostLocale ==
    IF ctx.stack = <<>> THEN LocaleEN ELSE ctx.stack[Len(ctx.stack)].entered

\* C25: a FactoryField made with a locale evaluates with it, one made
\* without evaluates with the locale of the innermost scope open (EN when
\* none is); a scope just left, normally or by an error, has put back the
\* default locale in force before it was entered
C25_FactoryLocale ==
    (ctx.kind = "factory") =>
        /\ (ctx.evaluated # <<>>) =>
              ctx.evaluated[2] = (IF ctx.evaluated[1] # NoneArg THEN ctx.evaluated[1]
                                  ELSE InnermostLocale)
        /\ (ctx.left # NoLeft) => ctx.default_locale = ctx.left.before
        /\ ctx.default_locale = InnermostLocale

\* a field with an explicit locale was evaluated inside two nested scopes
\* of other locales
C25_Witness ==
    /\ ctx.kind = "factory"
    /\ Len(ctx.stack) = 2
    /\ ctx.evaluated = <<LocaleRU, LocaleRU>>
    /\ ctx.stack[1].entered = LocaleDE
    /\ ctx.stack[2].entered = LocaleEN

---------------------------------------------------------------------------
(* mimesis/providers/date.py: bulk_create_datetimes *)

\* datetimes are counted in ticks from datetime.min = 0 to datetime.max =
\* MaxTime; adding a timedelta that leads past datetime.max raises
\* OverflowError
MaxTime == 6
MaxStepArg == 3
NoDate == -1        \* None passed for date_start or date_end

BulkArgs ==
    {<<s, e, d>> : s \in {NoDate} \cup 0..MaxTime, e \in {NoDate} \cup 0..MaxTime,
                   d \in (0 - 1)..MaxStepArg}

InitBulk ==
    /\ ConstructedCore(1, 1)
    /\ cpr = NoCpr
    /\ ctx = NoCtx
    /\ \E a \in BulkArgs :
          pure = [fn |-> "bulk_create_datetimes", arg |-> a, out |-> <<>>,
                  pc |-> "called", current |-> NoDate, err |-> ""]

\* the checks before the loop, lines 53-63
BulkCheck ==
    /\ pure.fn = "bulk_create_datetimes" /\ pure.pc = "called"
    /\ LET date_start == pure.arg[1]
           date_end == pure.arg[2]
           step == pure.arg[3]
       IN  pure' = IF date_start = NoDate \/ date_end = NoDate
                   THEN [pure EXCEPT !.pc = "done", !.err = "ValueError"]
                   ELSE IF date_start > date_end
                   THEN [pure EXCEPT !.pc = "done", !.err = "ValueError"]
                   ELSE IF step <= 0
                   THEN [pure EXCEPT !.pc = "done", !.err = "ValueError"]
                   ELSE [pure EXCEPT !.pc = "loop", !.current = date_start]
    /\ UNCHANGED <<rnd, prov, res, hist, steps, cpr, ctx>>

\* one test of the while condition, and one pass through the body when it
\* holds
BulkLoop ==
    /\ pure.fn = "bulk_create_datetimes" /\ pure.pc = "loop"
    /\ pure' = IF pure.current <= pure.arg[2]
               THEN IF pure.current + pure.arg[3] > MaxTime
                    THEN [pure EXCEPT !.pc = "done", !.err = "OverflowError",
                                      !.out = <<>>]
                    ELSE [pure EXCEPT !.out = Append(pure.out, pure.current),
                                      !.current = pure.current + pure.arg[3]]
               ELSE [pure EXCEPT !.pc = "done"]
    /\ UNCHANGED <<rnd, prov, res, hist, steps, cpr, ctx>>

NextBulk ==
    \/ BulkCheck
    \/ BulkLoop

SpecBulk == InitBulk /\ [][NextBulk]_vars

\* start, start + step, ... up to end
BulkPoints(start, end, step) ==
    [i \in 1..((end - start) \div step + 1) |-> start + (i - 1) * step]

\* C26: bulk_create_datetimes fails with ValueError exactly when start or
\* end is missing, start is later than end, or the step is not positive;
\* otherwise it returns start, start + step, ... up to end
C26_BulkCreate ==
    (pure.fn = "bulk_create_datetimes" /\ pure.pc = "done") =>
        LET start == pure.arg[1]
            end == pure.arg[2]
            step == pure.arg[3]
        IN  IF start = NoDate \/ end = NoDate \/ start > end \/ step <= 0
            THEN pure.err = "ValueError"
            ELSE pure.err = "" /\ pure.out = BulkPoints(start, end, step)

---------------------------------------------------------------------------
(* Providers constructed around a random object passed in by the caller. *)

Injected == 3       \* the random object the caller made and seeded

\* BaseProvider.__init__(seed=seed, random=obj): obj is in state st
NewProviderAround(obj, st, seed) ==
    reseed([random |-> obj, seed |-> seed], st, seed)

\* Payment.__init__ / Internet.__init__: the provider itself, then the
\* sub-providers made with seed=self.seed, random=self.random
NewComposite(obj, st, seed) ==
    LET outer == NewProviderAround(obj, st, seed)
    IN  [pr |-> outer.pr, st |-> NewProviderAround(obj, outer.st, outer.pr.seed).st]

\* no provider has just been constructed
NoInjection ==
    [kind |-> "inject", fresh |-> FALSE, before |-> SeedRng(MissingSeed),
     seed |-> MissingSeed, composite |-> FALSE]

\* the caller draws from its random object
SourceDraw ==
    /\ \E o \in randint(rnd[Injected], 0, 9) : rnd' = [rnd EXCEPT ![Injected] = o.st]
    /\ ctx' = NoInjection
    /\ UNCHANGED <<prov, res, hist, steps, pure, cpr>>

\* provider 1 is constructed around the caller's random object, with a
\* seed or without one, as a plain or as a composite provider
ConstructAround ==
    /\ \E seed \in Seeds \cup {MissingSeed}, composite \in BOOLEAN :
          LET made == IF composite THEN NewComposite(Injected, rnd[Injected], seed)
                      ELSE NewProviderAround(Injected, rnd[Injected], seed)
          IN  /\ prov' = [prov EXCEPT ![1] = made.pr]
              /\ rnd' = [rnd EXCEPT ![Injected] = made.st]
              /\ hist' = [hist EXCEPT ![1] = NewHist(seed, Injected)]
              /\ ctx' = [kind |-> "inject", fresh |-> TRUE, before |-> rnd[Injected],
                         seed |-> seed, composite |-> composite]
    /\ UNCHANGED <<res, steps, pure, cpr>>

\* The caller has seeded its random object with an explicit seed; no
\* provider is built around it yet.
InitInject ==
    /\ \E s \in Seeds :
          rnd = [k \in Objs |-> IF k = Injected THEN SeedRng(s) ELSE SeedRng(MissingSeed)]
    /\ prov = [p \in Provs |-> NewProvider(p, MissingSeed).pr]
    /\ hist = [p \in Provs |-> NewHist(MissingSeed, p)]
    /\ res = [p \in Provs |-> NoResult]
    /\ steps = 0
    /\ pure = NoPure
    /\ cpr = NoCpr
    /\ ctx = NoInjection

NextInject ==
    \/ SourceDraw
    \/ ConstructAround

SpecInject == InitInject /\ [][NextInject]_vars

\* C27: a provider, plain or composite, constructed without a seed around
\* a random object leaves that object in the state it was in
C27_InjectedSourceKept ==
    (ctx.kind = "inject" /\ ctx.fresh /\ ctx.seed = MissingSeed) =>
        rnd[Injected] = ctx.before

---------------------------------------------------------------------------
(* The seed a provider records. *)

\* Person.email(unique=True) raises ValueError: `unique and self._has_seed()`
EmailUniqueRefused(p) == HasSeed(p)

\* C28: the seed a provider records is the seed of its most recent
\* construction or reseed, unset when reseed was called without a value;
\* so _has_seed() holds, and email(unique=True) is refused, exactly when the
\* draws that follow are determined by an explicit seed
C28_SeedRecorded ==
    \A p \in Provs :
        /\ prov[p].seed = hist[p].base
        /\ HasSeed(p) <=> (IsExplicit(hist[p].base) /\ ~StOf(p).free)
        /\ EmailUniqueRefused(p) <=> HasSeed(p)

---------------------------------------------------------------------------
(* Operations that validate an enum argument. *)

TimestampFormat == <<1, 2, 3>>      \* POSIX, RFC_3339, ISO_8601
TitleType == <<1, 2, 3>>            \* ACADEMIC, SOCIAL, RELIGIOUS

\* Datetime.timestamp(fmt): the datetime is drawn, then fmt is validated;
\* the value is the datetime written in the format, kept as the format
\* followed by <<year, month, day, hour, minute, second, microsecond>>
timestamp(st, fmt) ==
    UNION {{IF v.err # "" THEN v ELSE Ret(v.val \o dt.val, v.st)
            : v \in validate_enum(dt.st, fmt, TimestampFormat)}
           : dt \in Datetime_datetime(st, CurrentYear, CurrentYear)}

\* self._dataset['titles'][...]: two titles under each key
Titles == <<1, 2>>

\* Person.title(gender, title_type): both arguments are validated, the
\* gender first, then a title is chosen
title(st, gender, title_type) ==
    UNION {UNION {IF g.err # "" THEN {g}
                  ELSE IF tt.err # "" THEN {tt}
                  ELSE choice(tt.st, Titles)
                  : tt \in IF g.err # "" THEN {g} ELSE validate_enum(g.st, title_type, TitleType)}
           : g \in validate_enum(st, gender, Gender)}

\* provider 1 issues the call c with the outcomes outs; the state its
\* random object was in before the call is kept in ctx
TrackedCall(c, outs) ==
    /\ \E o \in outs :
          /\ rnd' = [rnd EXCEPT ![prov[1].random] = o.st]
          /\ res' = [res EXCEPT ![1] = [op |-> c.op, err |-> o.err, val |-> o.val]]
    /\ hist' = [hist EXCEPT ![1].calls = <<c>>, ![1].drawn = TRUE]
    /\ ctx' = [kind |-> "call", before |-> StOf(1)]
    /\ UNCHANGED <<prov, steps, pure, cpr>>

TimestampCall ==
    \E fmt \in {1, 2, 3, NotAMember} :
        TrackedCall(Call("timestamp", <<fmt>>), timestamp(StOf(1), fmt))

TitleCall ==
    \E gender \in {NoneArg, Male, NotAMember}, title_type \in {NoneArg, 2, NotAMember} :
        TrackedCall(Call("title", <<gender, title_type>>),
                    title(StOf(1), gender, title_type))

CreditCardNumberCall ==
    \E card_type \in {NoneArg, 1, NotAMember} :
        TrackedCall(Call("credit_card_number", <<card_type>>),
                    credit_card_number(StOf(1), card_type))

EanCall ==
    \E fmt \in {NoneArg, 1, NotAMember} :
        TrackedCall(Call("ean", <<fmt>>), ean(StOf(1), fmt))

InitReject ==
    /\ \E s1 \in Seeds : ConstructedCore(s1, s1)
    /\ pure = NoPure
    /\ cpr = NoCpr
    /\ ctx = [kind |-> "call", before |-> SeedRng(MissingSeed)]

NextReject ==
    \/ TimestampCall
    \/ TitleCall
    \/ CreditCardNumberCall
    \/ EanCall

SpecReject == InitReject /\ [][NextReject]_vars

\* C29: a call refused with NonEnumerableError leaves the provider's random
\* object in the state it was in before the call
C29_RejectionDrawsNothing ==
    (ctx.kind = "call" /\ res[1].err = "NonEnumerableError") =>
        StOf(1) = ctx.before

---------------------------------------------------------------------------
(* Two providers, each with the Random it made, called in any order. *)

MaxSoloCalls == 2   \* calls a provider issues between two (re)seedings

\* a provider that uses one random object shared by all providers
OwnObject_shared(p) == 1

\* self.random = _random.Random(): the object provider p makes for itself
OwnObject(p) == p

\* the calls issued: randint(1, 100), choice([7, 8, 9]),
\* weighted_choice({1: 1, 2: 3})
SoloCalls ==
    { Call("randint", <<1, 100>>), Call("choice", <<7, 8, 9>>),
      Call("weighted_choice", <<1, 1, 2, 3>>) }

\* the outcomes of the call c on a random object in state st
Outcomes(st, c) ==
    CASE c.op = "randint" -> randint(st, c.args[1], c.args[2])
      [] c.op = "choice" -> choice(st, c.args)
      [] c.op = "weighted_choice" ->
             weighted_choice(st, <<<<c.args[1], c.args[2]>>, <<c.args[3], c.args[4]>>>>)

\* provider p alone issues a call
SoloCall ==
    \E p \in Provs, c \in SoloCalls :
        /\ Len(hist[p].calls) < MaxSoloCalls
        /\ \E o \in Outcomes(StOf(p), c) :
              /\ rnd' = [rnd EXCEPT ![prov[p].random] = o.st]
              /\ res' = [res EXCEPT ![p] = [op |-> c.op, err |-> o.err, val |-> o.val]]
        /\ hist' = [hist EXCEPT ![p].calls = Append(@, c), ![p].drawn = TRUE]
        /\ UNCHANGED <<prov, steps, pure, cpr, ctx>>

\* provider p alone is reseeded with an explicit seed
SoloReseed ==
    \E p \in Provs, seed \in Seeds :
        /\ hist[p].reseeds < 1
        /\ hist[p].drawn
        /\ rnd' = [rnd EXCEPT ![prov[p].random] = reseed(prov[p], StOf(p), seed).st]
        /\ prov' = [prov EXCEPT ![p] = reseed(prov[p], StOf(p), seed).pr]
        /\ hist' = [hist EXCEPT ![p] = [base |-> seed, calls |-> <<>>,
                                        reseeds |-> hist[p].reseeds + 1,
                                        drawn |-> FALSE, junk |-> TRUE,
                                        obj |-> hist[p].obj]]
        /\ res' = [res EXCEPT ![p] = NoResult]
        /\ UNCHANGED <<steps, pure, cpr, ctx>>

\* Provider 1 is constructed, then provider 2, each with a seed or without
\* one and each making its random object.
InitTwo ==
    /\ \E s1 \in Seeds \cup {MissingSeed}, s2 \in Seeds \cup {MissingSeed} :
          /\ prov = [p \in Provs |-> NewProvider(OwnObject(p), IF p = 1 THEN s1 ELSE s2).pr]
          /\ rnd = [k \in Objs |->
                       IF OwnObject(2) = k THEN NewProvider(k, s2).st
                       ELSE IF OwnObject(1) = k THEN NewProvider(k, s1).st
                       ELSE SeedRng(MissingSeed)]
          /\ hist = [p \in Provs |-> NewHist(IF p = 1 THEN s1 ELSE s2, OwnObject(p))]
    /\ res = [p \in Provs |-> NoResult]
    /\ steps = 0
    /\ pure = NoPure
    /\ cpr = NoCpr
    /\ ctx = NoCtx

NextTwo ==
    \/ SoloCall
    \/ SoloReseed

SpecTwo == InitTwo /\ [][NextTwo]_vars

RECURSIVE RunAlone(_, _)
\* what a provider alone can get from the calls, issued in order on a
\* random object that starts in state st: the outcomes of the last call
RunAlone(st, calls) ==
    IF Len(calls) = 1 THEN Outcomes(st, calls[1])
    ELSE UNION {RunAlone(o.st, Tail(calls)) : o \in Outcomes(st, calls[1])}

\* C30: the two providers hold different random objects, and whatever the
\* other provider did in between, the result of a provider's last call and
\* the state of its generator are what the provider can get when it issues
\* its calls alone after the same seeding
C30_Isolation ==
    /\ prov[1].random # prov[2].random
    /\ \A p \in Provs :
          (hist[p].calls # <<>>) =>
              [err |-> res[p].err, val |-> res[p].val, st |-> StOf(p)]
                  \in RunAlone(SeedRng(hist[p].base), hist[p].calls)

\* both providers, seeded alike, have issued two calls each, not the same
\* ones, and provider 2 was reseeded on the way
C30_Witness ==
    /\ Len(hist[1].calls) = 2 /\ Len(hist[2].calls) = 2
    /\ hist[1].base = 1 /\ hist[2].base = 1
    /\ hist[1].calls # hist[2].calls
    /\ hist[1].calls[1] = hist[2].calls[2]
    /\ hist[2].reseeds = 1

===========================================================================
